---- MODULE Spec2Model ----
(***************************************************************************)
(* Model of stock-options-rs (src/src/lib.rs): break_even_point, payoff,   *)
(* norm_dist and BlackScholesModel::price.                                 *)
(*                                                                         *)
(* An f64 is modelled bit for bit as an IEEE-754 binary64 number: a finite *)
(* value is s * m * 2^e with a sign s, a significand m of up to 53 bits    *)
(* and an exponent e, with subnormal numbers and signed zeros; NaN, +inf   *)
(* and -inf are values of their own.  +, -, *, / and sqrt are computed     *)
(* exactly and rounded once to the nearest f64, ties to even, as IEEE-754  *)
(* prescribes.  exp, ln and powf are the functions exp, log and pow of the *)
(* C library (glibc on x86-64 with fused multiply-add), which are not      *)
(* correctly rounded: they are computed step by step in f64 arithmetic     *)
(* from the library's tables and polynomials, so that the results are the  *)
(* library's to the last bit.                                              *)
(***************************************************************************)
EXTENDS Integers, Sequences, FiniteSets, TLC

\* ---------------------------------------------------- natural numbers
\* TLC's integers have 32 bits, an f64 significand has 53: a natural number
\* is a sequence of limbs of LimbBits bits, least significant first, without
\* leading zero limbs (zero is the empty sequence).

\* Ap(f, a) is the operator named f applied to the arguments a: the larger
\* operators are applied by name, see the definition of Ap below
RECURSIVE Ap(_, _)

LimbBits == 15
Base == 32768

RECURSIVE Pow2(_)
Pow2(n) == IF n = 0 THEN 1 ELSE 2 * Pow2(n - 1)

AbsI(n) == IF n < 0 THEN -n ELSE n
SgnI(n) == IF n < 0 THEN -1 ELSE 1

RECURSIVE BStrip(_)
BStrip(a) ==
  IF a # <<>> /\ a[Len(a)] = 0 THEN BStrip(SubSeq(a, 1, Len(a) - 1)) ELSE a

BFromInt(n) ==
  BStrip(<<n % Base, (n \div Base) % Base, n \div (Base * Base)>>)

\* the value of a number below 2^31
RECURSIVE BToInt(_)
BToInt(a) == IF a = <<>> THEN 0 ELSE Head(a) + (Base * BToInt(Tail(a)))

\* a + b + c, c a carry
RECURSIVE BAddC(_, _, _)
BAddC(a, b, c) ==
  IF a = <<>> /\ b = <<>> THEN (IF c = 0 THEN <<>> ELSE <<c>>)
  ELSE LET x == (IF a = <<>> THEN 0 ELSE Head(a)) + (IF b = <<>> THEN 0 ELSE Head(b)) + c
       IN  <<x % Base>> \o BAddC(IF a = <<>> THEN a ELSE Tail(a),
                                 IF b = <<>> THEN b ELSE Tail(b), x \div Base)

BAdd(a, b) == BAddC(a, b, 0)

\* a - b - w for a >= b + w, w a borrow
RECURSIVE BSubB(_, _, _)
BSubB(a, b, w) ==
  IF a = <<>> THEN <<>>
  ELSE LET x == Head(a) - (IF b = <<>> THEN 0 ELSE Head(b)) - w
       IN  <<x % Base>> \o BSubB(Tail(a), IF b = <<>> THEN b ELSE Tail(b),
                                 IF x < 0 THEN 1 ELSE 0)

BSub(a, b) == BStrip(BSubB(a, b, 0))

\* -1, 0 or 1 as a < b, a = b or a > b
RECURSIVE BCmpAt(_, _, _)
BCmpAt(a, b, i) ==
  IF i = 0 THEN 0
  ELSE IF a[i] < b[i] THEN -1
  ELSE IF a[i] > b[i] THEN 1
  ELSE BCmpAt(a, b, i - 1)

BCmp(a, b) ==
  IF Len(a) < Len(b) THEN -1
  ELSE IF Len(a) > Len(b) THEN 1
  ELSE BCmpAt(a, b, Len(a))

\* a * k + c for 0 < k < Base and c < Base
RECURSIVE BMulSmall(_, _, _)
BMulSmall(a, k, c) ==
  IF a = <<>> THEN (IF c = 0 THEN <<>> ELSE <<c>>)
  ELSE LET x == (Head(a) * k) + c
       IN  <<x % Base>> \o BMulSmall(Tail(a), k, x \div Base)

\* a * Base^n
BLimbs(a, n) == IF a = <<>> THEN a ELSE [i \in 1..n |-> 0] \o a

RECURSIVE BMul(_, _)
BMul(a, b) ==
  IF a = <<>> \/ b = <<>> THEN <<>>
  ELSE IF Head(b) = 0 THEN BLimbs(BMul(a, Tail(b)), 1)
  ELSE BAdd(BMulSmall(a, Head(b), 0), BLimbs(BMul(a, Tail(b)), 1))

\* a * 2^n and floor(a / 2^n)
BShl(a, n) == BLimbs(BMulSmall(a, Pow2(n % LimbBits), 0), n \div LimbBits)

BShr(a, n) ==
  IF n \div LimbBits >= Len(a) THEN <<>>
  ELSE LET t == SubSeq(a, (n \div LimbBits) + 1, Len(a))
           p == Pow2(n % LimbBits)
           h == Pow2(LimbBits - (n % LimbBits))
       IN  BStrip([i \in 1..Len(t) |->
                     (t[i] \div p) + (IF i < Len(t) THEN (t[i + 1] % p) * h ELSE 0)])

\* bit i of a, bit 0 the least significant
BBit(a, i) ==
  IF i \div LimbBits >= Len(a) THEN 0
  ELSE (a[(i \div LimbBits) + 1] \div Pow2(i % LimbBits)) % 2

\* a has a one among its n lowest bits
BLowNonZero(a, n) ==
  \/ \E i \in 1..Len(a) : i <= n \div LimbBits /\ a[i] # 0
  \/ /\ n \div LimbBits < Len(a)
     /\ a[(n \div LimbBits) + 1] % Pow2(n % LimbBits) # 0

RECURSIVE BitLenI(_)
BitLenI(n) == IF n = 0 THEN 0 ELSE 1 + BitLenI(n \div 2)

\* the number of bits of a
BBitLen(a) == IF a = <<>> THEN 0 ELSE (LimbBits * (Len(a) - 1)) + BitLenI(a[Len(a)])

\* floor(a / k) for 0 < k < 2 * Base, from limb i down, r the remainder so far
RECURSIVE BDivSmallAt(_, _, _, _, _)
BDivSmallAt(a, k, i, r, acc) ==
  IF i = 0 \/ Len(acc) < 0 THEN acc
  ELSE BDivSmallAt(a, k, i - 1, ((r * Base) + a[i]) % k,
                   <<((r * Base) + a[i]) \div k>> \o acc)

BDivSmall(a, k) == BStrip(BDivSmallAt(a, k, Len(a), 0, <<>>))

\* long division: c bits of n, from bit i - 1 down, are brought down behind
\* the remainder r < d, the quotient bits are gathered in q
RECURSIVE BDivBits(_, _, _, _, _, _)
BDivBits(n, d, i, c, r, q) ==
  IF c = 0 \/ Len(q) < 0 THEN [q |-> q, r |-> r]
  ELSE LET r2 == BMulSmall(r, 2, BBit(n, i - 1))
       IN  IF BCmp(r2, d) >= 0
           THEN BDivBits(n, d, i - 1, c - 1, BSub(r2, d), BMulSmall(q, 2, 1))
           ELSE BDivBits(n, d, i - 1, c - 1, r2, BMulSmall(q, 2, 0))

\* the same for bits i - 1 .. 0 of n, a limb of quotient bits at a time
RECURSIVE BDivLoop(_, _, _, _, _)
BDivLoop(n, d, i, r, q) ==
  IF i = 0 \/ Len(q) < 0 THEN [q |-> q, r |-> r]
  ELSE LET c == IF i % LimbBits = 0 THEN LimbBits ELSE i % LimbBits
           qr == BDivBits(n, d, i, c, r, q)
       IN  BDivLoop(n, d, i - c, qr.r, qr.q)

\* floor(n / d) and n mod d, d > 0
BDivMod(n, d) ==
  IF BBitLen(n) < BBitLen(d) THEN [q |-> <<>>, r |-> n]
  ELSE BDivLoop(n, d, (BBitLen(n) - BBitLen(d)) + 1,
                BShr(n, (BBitLen(n) - BBitLen(d)) + 1), <<>>)

\* the square root digit by digit, c digits: bit is a power of 4, res the
\* root so far, n what is left of the radicand
RECURSIVE BSqrtBits(_, _, _, _)
BSqrtBits(n, res, bit, c) ==
  IF c = 0 \/ bit = <<>> \/ Len(res) < 0 THEN [n |-> n, res |-> res, bit |-> bit]
  ELSE IF BCmp(n, BAdd(res, bit)) >= 0
       THEN BSqrtBits(BSub(n, BAdd(res, bit)), BAdd(BShr(res, 1), bit), BShr(bit, 2), c - 1)
       ELSE BSqrtBits(n, BShr(res, 1), BShr(bit, 2), c - 1)

\* the same down to the last digit, a limb of digits at a time
RECURSIVE BSqrtLoop(_, _, _)
BSqrtLoop(n, res, bit) ==
  IF bit = <<>> \/ Len(res) < 0 THEN [q |-> res, r |-> n]
  ELSE LET t == BSqrtBits(n, res, bit, LimbBits)
       IN  BSqrtLoop(t.n, t.res, t.bit)

\* floor(sqrt(n)) and n - floor(sqrt(n))^2
BSqrtRem(n) ==
  IF n = <<>> THEN [q |-> <<>>, r |-> <<>>]
  ELSE BSqrtLoop(n, <<>>, BShl(<<1>>, 2 * ((BBitLen(n) - 1) \div 2)))

\* a signed number [s, m] plus another
SAdd(a, b) ==
  IF a.s = b.s THEN [s |-> a.s, m |-> BAdd(a.m, b.m)]
  ELSE IF BCmp(a.m, b.m) >= 0 THEN [s |-> a.s, m |-> BSub(a.m, b.m)]
  ELSE [s |-> b.s, m |-> BSub(b.m, a.m)]

\* ------------------------------------------------------------------ f64
\* A finite f64 is s * m * 2^e: a sign s, a significand m below 2^MantBits
\* and an exponent e >= MinExp; a normal number has m >= 2^(MantBits - 1), a
\* subnormal one has e = MinExp, a zero has m = 0 and keeps its sign.

MantBits == 53
MinExp == -1074
MaxExp == 971

Flt(s, m, e) == [k |-> "fin", s |-> s, m |-> m, e |-> e]
Zero == Flt(1, <<>>, 0)
NegZero == Flt(-1, <<>>, 0)
NaN == [k |-> "nan", s |-> 1, m |-> <<>>, e |-> 0]
PInf == [k |-> "inf", s |-> 1, m |-> <<>>, e |-> 0]
NInf == [k |-> "inf", s |-> -1, m |-> <<>>, e |-> 0]

IsFin(x) == x.k = "fin"
IsNaN(x) == x.k = "nan"
IsInf(x) == x.k = "inf"
IsZero(x) == x.k = "fin" /\ x.m = <<>>
Inf(s) == IF s = 1 THEN PInf ELSE NInf
SZero(s) == IF s = 1 THEN Zero ELSE NegZero

\* the f64 s * m * 2^e for m below 2^MantBits and e >= MinExp, m >=
\* 2^(MantBits - 1) unless e = MinExp: infinite from 2^1024 on
Pack(s, m, e) ==
  IF m = <<>> THEN SZero(s)
  ELSE IF e > MaxExp THEN Inf(s)
  ELSE Flt(s, m, e)

\* the same for m up to 2^MantBits, which takes the next exponent
PackCarry(s, m, e) ==
  IF BBitLen(m) > MantBits THEN Pack(s, BShr(m, 1), e + 1) ELSE Pack(s, m, e)

\* s * (m + t) * 2^e rounded to a multiple of 2^(e + sh), ties to even
RoundAt(s, m, e, sticky, sh) ==
  IF sh <= 0 THEN Pack(s, BShl(m, -sh), e + sh)
  ELSE IF /\ BBit(m, sh - 1) = 1
          /\ (sticky \/ BLowNonZero(m, sh - 1) \/ BBit(m, sh) = 1)
       THEN PackCarry(s, BAdd(BShr(m, sh), <<1>>), e + sh)
       ELSE Pack(s, BShr(m, sh), e + sh)

\* the f64 nearest to s * (m + t) * 2^e, ties to even, where 0 <= t < 1 and
\* sticky says that t > 0: the result has MantBits bits, or fewer when it is
\* below 2^-1022, where the results are the multiples of 2^MinExp
Round(s, m, e, sticky) ==
  IF m = <<>> THEN SZero(s)
  ELSE IF (e + BBitLen(m)) - MantBits < MinExp
  THEN RoundAt(s, m, e, sticky, MinExp - e)
  ELSE RoundAt(s, m, e, sticky, BBitLen(m) - MantBits)

\* an integer literal such as 2.0, |n| < 2^31
FromInt(n) ==
  IF n = 0 THEN Zero
  ELSE Flt(SgnI(n), BShl(BFromInt(AbsI(n)), MantBits - BitLenI(AbsI(n))),
           BitLenI(AbsI(n)) - MantBits)

One == FromInt(1)
Two == FromInt(2)

\* -x
FNeg(x) == IF IsNaN(x) THEN NaN ELSE [x EXCEPT !.s = -x.s]

\* x.abs()
FAbs(x) == IF IsNaN(x) THEN NaN ELSE [x EXCEPT !.s = 1]

\* the f64 of the exact sum r = [s, m] * 2^e
RoundSum(r, e) == IF r.m = <<>> THEN Zero ELSE Ap("Round", <<r.s, r.m, e, FALSE>>)

\* a + b for finite non-zero numbers a and b, a.e >= b.e: the sum is exact
\* before it is rounded, but for a b far below the last place of a, which
\* only counts as sticky
AddFin(a, b) ==
  IF a.e - b.e > MantBits + 3
  THEN Ap("Round", <<a.s, IF a.s = b.s THEN BShl(a.m, 2) ELSE BSub(BShl(a.m, 2), <<1>>),
                    a.e - 2, TRUE>>)
  ELSE RoundSum(SAdd([s |-> a.s, m |-> BShl(a.m, a.e - b.e)], b), b.e)

\* x + y
FAdd(x, y) ==
  IF IsNaN(x) \/ IsNaN(y) THEN NaN
  ELSE IF IsInf(x) THEN (IF IsInf(y) /\ x.s # y.s THEN NaN ELSE x)
  ELSE IF IsInf(y) THEN y
  ELSE IF IsZero(x) THEN (IF IsZero(y) THEN (IF x.s = y.s THEN x ELSE Zero) ELSE y)
  ELSE IF IsZero(y) THEN x
  ELSE IF x.e >= y.e THEN Ap("AddFin", <<x, y>>)
  ELSE Ap("AddFin", <<y, x>>)

\* x - y
FSub(x, y) == FAdd(x, FNeg(y))

\* x * y
FMul(x, y) ==
  IF IsNaN(x) \/ IsNaN(y) THEN NaN
  ELSE IF IsInf(x) \/ IsInf(y)
       THEN (IF IsZero(x) \/ IsZero(y) THEN NaN ELSE Inf(x.s * y.s))
  ELSE Ap("Round", <<x.s * y.s, BMul(x.m, y.m), x.e + y.e, FALSE>>)

\* the f64 of s * (qr.q + t) * 2^e, where t > 0 says the remainder qr.r
RoundQuot(s, qr, e) == Ap("Round", <<s, qr.q, e, qr.r # <<>> >>)

\* the f64 nearest to s * n / d * 2^e for natural numbers n, d > 0: the
\* quotient is taken to MantBits + 3 bits or more, the remainder is sticky
DivFin(s, n, d, e) ==
  RoundQuot(s, BDivMod(BShl(n, (MantBits + 3 + BBitLen(d)) - BBitLen(n)), d),
            e - ((MantBits + 3 + BBitLen(d)) - BBitLen(n)))

\* x / y
FDiv(x, y) ==
  IF IsNaN(x) \/ IsNaN(y) THEN NaN
  ELSE IF IsInf(x) THEN (IF IsInf(y) THEN NaN ELSE Inf(x.s * y.s))
  ELSE IF IsInf(y) THEN SZero(x.s * y.s)
  ELSE IF IsZero(y) THEN (IF IsZero(x) THEN NaN ELSE Inf(x.s * y.s))
  ELSE IF IsZero(x) THEN SZero(x.s * y.s)
  ELSE Ap("DivFin", <<x.s * y.s, x.m, y.m, x.e - y.e>>)

\* a decimal literal of the source: the f64 nearest to n / p
Dec(n, p) ==
  IF n = 0 THEN Zero ELSE Ap("DivFin", <<SgnI(n), BFromInt(AbsI(n)), BFromInt(p), 0>>)

\* the natural number written as the groups of four decimal digits ds
RECURSIVE BDigits(_, _)
BDigits(ds, acc) ==
  IF ds = <<>> THEN acc
  ELSE BDigits(Tail(ds), IF acc = <<>> THEN BFromInt(Head(ds))
                         ELSE BMulSmall(acc, 10000, Head(ds)))

RECURSIVE BPow10(_)
BPow10(n) == IF n = 0 THEN <<1>> ELSE BMulSmall(BPow10(n - 1), 10, 0)

\* a decimal literal of more than nine digits: the f64 nearest to the number
\* whose digits are ds, the last n of them behind the decimal point
Lit(ds, n) == Ap("DivFin", <<1, BDigits(ds, <<>>), BPow10(n), 0>>)

\* x < y of f64: false as soon as one side is NaN, and -0.0 is not below 0.0
FLt(x, y) ==
  IF IsNaN(x) \/ IsNaN(y) THEN FALSE
  ELSE IF IsInf(x) THEN x.s = -1 /\ ~(IsInf(y) /\ y.s = -1)
  ELSE IF IsInf(y) THEN y.s = 1
  ELSE IF IsZero(x) THEN ~IsZero(y) /\ y.s = 1
  ELSE IF IsZero(y) THEN x.s = -1
  ELSE IF x.s # y.s THEN x.s = -1
  ELSE IF x.e >= y.e THEN BCmp(BShl(x.m, x.e - y.e), y.m) = -x.s
  ELSE BCmp(x.m, BShl(y.m, y.e - x.e)) = -x.s

\* x > y of f64
FGt(x, y) == FLt(y, x)

\* x == y of f64
FEq(x, y) ==
  /\ ~IsNaN(x)
  /\ ~IsNaN(y)
  /\ (x = y \/ (IsZero(x) /\ IsZero(y)))

\* the operand x.max(y) returns when x and y compare equal: which one is left
\* to the build, and matters for -0.0 and 0.0 only
MaxTie == {"first", "second"}

\* x.max(y): a NaN operand is ignored and the greater operand is returned; of
\* operands that compare equal it is the one named by tie
FMax(x, y, tie) ==
  IF IsNaN(x) THEN y
  ELSE IF IsNaN(y) THEN x
  ELSE IF FGt(x, y) THEN x
  ELSE IF FGt(y, x) THEN y
  ELSE IF tie = "first" THEN x
  ELSE y

\* x.powi(2)
FPowi2(x) == FMul(x, x)

\* the root of a finite x > 0, x = m * 2^e, from the integer root of
\* m * 2^k with e - k even
SqrtFin(x) ==
  IF x.e % 2 = 0
  THEN RoundQuot(1, BSqrtRem(BShl(x.m, (2 * MantBits) + 4)), (x.e - ((2 * MantBits) + 4)) \div 2)
  ELSE RoundQuot(1, BSqrtRem(BShl(x.m, (2 * MantBits) + 5)), (x.e - ((2 * MantBits) + 5)) \div 2)

\* x.sqrt()
FSqrt(x) ==
  IF IsNaN(x) THEN NaN
  ELSE IF IsZero(x) THEN x
  ELSE IF x.s < 0 THEN NaN
  ELSE IF IsInf(x) THEN PInf
  ELSE Ap("SqrtFin", <<x>>)

\* ----------------------------------------------------------------- libm
\* exp, ln and powf are the functions exp, log and pow of the C library that
\* the program is linked with.  They are not correctly rounded: each reduces
\* its argument with a table and evaluates a polynomial in f64 arithmetic
\* with fused multiply-adds, and the result is what these operations give.

\* the exact product p = s * m * 2^e plus a finite c # 0, rounded once: the
\* sum is exact before it is rounded, but for an addend far below the last
\* place of the other, which only counts as sticky
FmaFin(p, c) ==
  IF p.e >= c.e
  THEN IF p.e - c.e > MantBits + 3
       THEN Ap("Round", <<p.s, IF p.s = c.s THEN BShl(p.m, 2) ELSE BSub(BShl(p.m, 2), <<1>>),
                         p.e - 2, TRUE>>)
       ELSE RoundSum(SAdd([s |-> p.s, m |-> BShl(p.m, p.e - c.e)], c), c.e)
  ELSE IF c.e - p.e > (2 * MantBits) + 3
       THEN Ap("Round", <<c.s, IF p.s = c.s THEN BShl(c.m, 2) ELSE BSub(BShl(c.m, 2), <<1>>),
                         c.e - 2, TRUE>>)
       ELSE RoundSum(SAdd([s |-> c.s, m |-> BShl(c.m, c.e - p.e)], p), p.e)

\* x * y + z with one rounding (fused multiply-add)
FFma(x, y, z) ==
  IF IsNaN(x) \/ IsNaN(y) \/ IsNaN(z) THEN NaN
  ELSE IF IsInf(x) \/ IsInf(y)
       THEN (IF IsZero(x) \/ IsZero(y) THEN NaN
             ELSE IF IsInf(z) /\ z.s # x.s * y.s THEN NaN
             ELSE Inf(x.s * y.s))
  ELSE IF IsInf(z) THEN z
  ELSE IF IsZero(x) \/ IsZero(y)
       THEN (IF IsZero(z) THEN (IF z.s = x.s * y.s THEN z ELSE Zero) ELSE z)
  ELSE IF IsZero(z) THEN Ap("Round", <<x.s * y.s, BMul(x.m, y.m), x.e + y.e, FALSE>>)
  ELSE Ap("FmaFin", <<[s |-> x.s * y.s, m |-> BMul(x.m, y.m), e |-> x.e + y.e], z>>)

\* floor(log2 |x|) of a finite x # 0
Log2(x) == (x.e + BBitLen(x.m)) - 1

\* 2^n as an f64, -1022 <= n <= 1023
TwoTo(n) == Flt(1, BShl(<<1>>, MantBits - 1), n - (MantBits - 1))

\* the whole number that the f64 x holds, |x| < 2^31
FToInt(x) == IF IsZero(x) THEN 0 ELSE x.s * BToInt(BShr(x.m, -x.e))

\* the intervals of a table: 2^(j/ExpN) for exp, ExpN intervals for ln
ExpN == 128

\* 128 / ln 2 (0x1.71547652b82fep+7)
InvLn2N == Flt(1, <<766, 19031, 21789, 184>>, -45)

\* 1.5 * 2^52, which added to a number rounds it to a whole number
Shift == Flt(1, <<0, 0, 0, 192>>, 0)

\* -ln 2 / 128 in two parts, the first short enough for k times it to be exact
NegLn2hiN == Flt(-1, <<0, 32244, 14603, 177>>, -60)
NegLn2loN == Flt(-1, <<15162, 31036, 24170, 231>>, -99)

\* the coefficients of r^2 .. r^5 in the polynomial of e^r - 1, about 1/2, 1/6,
\* 1/24 and 1/120
ExpC ==
  << Flt(1, <<32189, 32767, 32767, 255>>, -54),
     Flt(1, <<21564, 10922, 21845, 170>>, -55),
     Flt(1, <<11153, 7726, 21847, 170>>, -57),
     Flt(1, <<20503, 20297, 17477, 136>>, -59) >>

\* for j = 0 .. 127, at index j + 1: 2^(j/128) as an f64 scale and the tail that
\* the f64 leaves, <<tail, scale>> with 2^(j/128) ~ scale * (1 + tail)
ExpTab ==
  << <<Zero, Flt(1, <<0, 0, 0, 128>>, -52)>>,
     <<Flt(1, <<16238, 13585, 27964, 217>>, -106), Flt(1, <<13109, 21494, 22774, 128>>, -52)>>,
     <<Flt(-1, <<23645, 14769, 78, 139>>, -108), Flt(1, <<97, 31983, 12904, 129>>, -52)>>,
     <<Flt(-1, <<26321, 8462, 31208, 130>>, -106), Flt(1, <<32645, 20700, 3159, 130>>, -52)>>,
     <<Flt(1, <<30227, 27343, 18760, 230>>, -107), Flt(1, <<1396, 9771, 26307, 130>>, -52)>>,
     <<Flt(-1, <<3834, 18419, 14848, 222>>, -107), Flt(1, <<30430, 21435, 16812, 131>>, -52)>>,
     <<Flt(1, <<18529, 17357, 23865, 135>>, -109), Flt(1, <<7112, 12523, 7444, 132>>, -52)>>,
     <<Flt(1, <<21401, 13927, 3985, 133>>, -106), Flt(1, <<29571, 5517, 30971, 132>>, -52)>>,
     <<Flt(1, <<31597, 15110, 27289, 188>>, -106), Flt(1, <<2319, 23027, 21857, 133>>, -52)>>,
     <<Flt(1, <<28668, 9723, 21610, 245>>, -107), Flt(1, <<18423, 22244, 12872, 134>>, -52)>>,
     <<Flt(1, <<7377, 24671, 30965, 245>>, -112), Flt(1, <<20898, 26023, 4016, 135>>, -52)>>,
     <<Flt(-1, <<28171, 4896, 3282, 208>>, -109), Flt(1, <<21275, 24573, 28058, 135>>, -52)>>,
     <<Flt(-1, <<15630, 21599, 22856, 170>>, -106), Flt(1, <<23377, 8228, 19463, 136>>, -52)>>,
     <<Flt(-1, <<27221, 6301, 958, 132>>, -110), Flt(1, <<12748, 216, 10999, 137>>, -52)>>,
     <<Flt(-1, <<29718, 29611, 9358, 142>>, -106), Flt(1, <<11744, 23890, 2666, 138>>, -52)>>,
     <<Flt(1, <<21935, 21176, 20367, 134>>, -107), Flt(1, <<3665, 4427, 27235, 138>>, -52)>>,
     <<Flt(-1, <<4936, 21835, 27735, 128>>, -107), Flt(1, <<20859, 30970, 19168, 139>>, -52)>>,
     <<Flt(-1, <<12861, 11196, 32705, 248>>, -107), Flt(1, <<3562, 28953, 11236, 140>>, -52)>>,
     <<Flt(1, <<21439, 32294, 9776, 220>>, -107), Flt(1, <<19317, 22239, 3439, 141>>, -52)>>,
     <<Flt(-1, <<27430, 27683, 26225, 182>>, -106), Flt(1, <<23764, 2056, 28546, 141>>, -52)>>,
     <<Flt(1, <<12128, 31860, 13276, 215>>, -106), Flt(1, <<14762, 25297, 21020, 142>>, -52)>>,
     <<Flt(-1, <<14493, 5900, 7691, 255>>, -107), Flt(1, <<22813, 17913, 13632, 143>>, -52)>>,
     <<Flt(1, <<17293, 2381, 15621, 211>>, -107), Flt(1, <<3286, 4293, 6382, 144>>, -52)>>,
     <<Flt(1, <<1149, 25032, 26646, 131>>, -107), Flt(1, <<23702, 8955, 32038, 144>>, -52)>>,
     <<Flt(1, <<10388, 18257, 15351, 180>>, -106), Flt(1, <<25144, 23786, 25065, 145>>, -52)>>,
     <<Flt(1, <<18557, 25832, 30819, 186>>, -107), Flt(1, <<9791, 8037, 18233, 146>>, -52)>>,
     <<Flt(1, <<26610, 12351, 7342, 130>>, -107), Flt(1, <<31965, 19396, 11541, 147>>, -52)>>,
     <<Flt(-1, <<2142, 32482, 25068, 181>>, -106), Flt(1, <<25473, 17386, 4991, 148>>, -52)>>,
     <<Flt(1, <<11057, 23059, 24453, 151>>, -107), Flt(1, <<24289, 27199, 31351, 148>>, -52)>>,
     <<Flt(-1, <<16378, 13535, 1644, 233>>, -112), Flt(1, <<22928, 8629, 25087, 149>>, -52)>>,
     <<Flt(1, <<2740, 25624, 24073, 217>>, -107), Flt(1, <<779, 19912, 18966, 150>>, -52)>>,
     <<Flt(1, <<19343, 5021, 21066, 240>>, -109), Flt(1, <<12118, 21116, 12990, 151>>, -52)>>,
     <<Flt(1, <<11190, 7009, 13781, 154>>, -107), Flt(1, <<14101, 5219, 7160, 152>>, -52)>>,
     <<Flt(1, <<29772, 17752, 2055, 178>>, -107), Flt(1, <<22577, 30873, 1475, 153>>, -52)>>,
     <<Flt(1, <<30794, 15271, 29925, 254>>, -107), Flt(1, <<5887, 25800, 28706, 153>>, -52)>>,
     <<Flt(-1, <<23300, 30492, 3584, 181>>, -107), Flt(1, <<8177, 16165, 23317, 154>>, -52)>>,
     <<Flt(-1, <<20584, 6294, 11191, 146>>, -106), Flt(1, <<10699, 28277, 18076, 155>>, -52)>>,
     <<Flt(-1, <<11662, 13986, 8160, 200>>, -106), Flt(1, <<22630, 23051, 12985, 156>>, -52)>>,
     <<Flt(-1, <<14034, 32040, 18336, 142>>, -108), Flt(1, <<8183, 27083, 8044, 157>>, -52)>>,
     <<Flt(-1, <<6933, 26524, 25702, 200>>, -106), Flt(1, <<10469, 1575, 3255, 158>>, -52)>>,
     <<Flt(1, <<19565, 20052, 32034, 172>>, -107), Flt(1, <<13346, 6180, 31385, 158>>, -52)>>,
     <<Flt(-1, <<27018, 29776, 18817, 152>>, -106), Flt(1, <<28, 2393, 26900, 159>>, -52)>>,
     <<Flt(-1, <<2395, 4143, 7741, 197>>, -110), Flt(1, <<11818, 17390, 22568, 160>>, -52)>>,
     <<Flt(-1, <<6683, 20115, 12909, 225>>, -108), Flt(1, <<10391, 12961, 18391, 161>>, -52)>>,
     <<Flt(1, <<11281, 16773, 4021, 155>>, -111), Flt(1, <<2349, 16579, 14369, 162>>, -52)>>,
     <<Flt(1, <<25839, 30220, 6180, 179>>, -106), Flt(1, <<87, 23098, 10503, 163>>, -52)>>,
     <<Flt(1, <<889, 13634, 13191, 246>>, -109), Flt(1, <<15568, 27522, 6794, 164>>, -52)>>,
     <<Flt(1, <<4656, 32286, 32312, 159>>, -106), Flt(1, <<21470, 25007, 3243, 165>>, -52)>>,
     <<Flt(1, <<12208, 30453, 17210, 180>>, -108), Flt(1, <<10791, 10860, 32619, 165>>, -52)>>,
     <<Flt(1, <<24695, 22185, 30455, 152>>, -106), Flt(1, <<23821, 13307, 29386, 166>>, -52)>>,
     <<Flt(-1, <<9102, 227, 20688, 252>>, -107), Flt(1, <<11431, 27962, 26313, 167>>, -52)>>,
     <<Flt(-1, <<9033, 14631, 31539, 190>>, -107), Flt(1, <<26178, 17822, 23402, 168>>, -52)>>,
     <<Flt(-1, <<14431, 31262, 31514, 198>>, -108), Flt(1, <<20354, 11578, 20653, 169>>, -52)>>,
     <<Flt(-1, <<23798, 22774, 18715, 176>>, -107), Flt(1, <<4623, 5307, 18067, 170>>, -52)>>,
     <<Flt(1, <<22414, 12795, 21524, 153>>, -106), Flt(1, <<10202, 28010, 15644, 171>>, -52)>>,
     <<Flt(1, <<6917, 24341, 25308, 220>>, -108), Flt(1, <<18429, 10543, 13387, 172>>, -52)>>,
     <<Flt(1, <<21513, 17464, 3975, 131>>, -106), Flt(1, <<21545, 14992, 11295, 173>>, -52)>>,
     <<Flt(1, <<18154, 8243, 7701, 166>>, -112), Flt(1, <<18103, 5298, 9370, 174>>, -52)>>,
     <<Flt(1, <<16437, 22217, 19352, 161>>, -106), Flt(1, <<8520, 11098, 7612, 175>>, -52)>>,
     <<Flt(-1, <<30367, 17202, 4393, 231>>, -107), Flt(1, <<23561, 29421, 6022, 176>>, -52)>>,
     <<Flt(-1, <<19880, 30686, 20244, 225>>, -107), Flt(1, <<21893, 24692, 4602, 177>>, -52)>>,
     <<Flt(-1, <<27054, 4695, 19938, 162>>, -107), Flt(1, <<17184, 27033, 3352, 178>>, -52)>>,
     <<Flt(-1, <<22616, 28844, 15221, 158>>, -106), Flt(1, <<8741, 1194, 2274, 179>>, -52)>>,
     <<Flt(1, <<6500, 252, 17066, 184>>, -110), Flt(1, <<10611, 10393, 1367, 180>>, -52)>>,
     <<Flt(-1, <<8744, 32444, 20414, 157>>, -106), Flt(1, <<15309, 19710, 633, 181>>, -52)>>,
     <<Flt(-1, <<14722, 3689, 19126, 208>>, -109), Flt(1, <<23231, 27159, 73, 182>>, -52)>>,
     <<Flt(-1, <<10734, 28891, 8126, 155>>, -109), Flt(1, <<6703, 30922, 32456, 182>>, -52)>>,
     <<Flt(-1, <<2129, 10689, 28917, 134>>, -107), Flt(1, <<5252, 29347, 32247, 183>>, -52)>>,
     <<Flt(-1, <<16079, 31924, 32145, 192>>, -108), Flt(1, <<24436, 20952, 32215, 184>>, -52)>>,
     <<Flt(-1, <<32176, 278, 14635, 183>>, -107), Flt(1, <<372, 4427, 32361, 185>>, -52)>>,
     <<Flt(-1, <<26250, 15531, 25800, 176>>, -107), Flt(1, <<26569, 11396, 32685, 186>>, -52)>>,
     <<Flt(1, <<21715, 15379, 29485, 132>>, -106), Flt(1, <<23871, 8124, 421, 188>>, -52)>>,
     <<Flt(-1, <<9501, 29339, 19314, 217>>, -108), Flt(1, <<391, 26582, 1105, 189>>, -52)>>,
     <<Flt(1, <<16491, 10447, 13301, 167>>, -106), Flt(1, <<16690, 609, 1972, 190>>, -52)>>,
     <<Flt(1, <<27733, 22444, 12166, 175>>, -109), Flt(1, <<20066, 28062, 3020, 191>>, -52)>>,
     <<Flt(-1, <<20290, 24423, 1812, 197>>, -107), Flt(1, <<6674, 10364, 4253, 192>>, -52)>>,
     <<Flt(-1, <<14132, 25206, 9947, 155>>, -106), Flt(1, <<19987, 12953, 5670, 193>>, -52)>>,
     <<Flt(-1, <<32542, 29747, 31248, 130>>, -107), Flt(1, <<18349, 3143, 7273, 194>>, -52)>>,
     <<Flt(-1, <<22382, 12516, 20803, 166>>, -106), Flt(1, <<4845, 13961, 9062, 195>>, -52)>>,
     <<Flt(1, <<2560, 13853, 13725, 133>>, -106), Flt(1, <<26265, 13076, 11039, 196>>, -52)>>,
     <<Flt(1, <<27316, 993, 23743, 237>>, -107), Flt(1, <<8411, 1109, 13205, 197>>, -52)>>,
     <<Flt(-1, <<26623, 14731, 22914, 173>>, -109), Flt(1, <<17548, 11626, 15560, 198>>, -52)>>,
     <<Flt(1, <<24388, 13286, 23053, 223>>, -108), Flt(1, <<30518, 12842, 18106, 199>>, -52)>>,
     <<Flt(-1, <<15747, 20028, 9342, 152>>, -106), Flt(1, <<32710, 5923, 20844, 200>>, -52)>>,
     <<Flt(-1, <<7721, 5848, 9954, 237>>, -110), Flt(1, <<17893, 24987, 23774, 201>>, -52)>>,
     <<Flt(-1, <<14681, 31009, 4069, 225>>, -109), Flt(1, <<21007, 6032, 26899, 202>>, -52)>>,
     <<Flt(-1, <<31146, 17897, 3340, 146>>, -106), Flt(1, <<20048, 16316, 30218, 203>>, -52)>>,
     <<Flt(-1, <<3659, 11981, 10675, 174>>, -107), Flt(1, <<1978, 24980, 965, 205>>, -52)>>,
     <<Flt(1, <<20007, 22307, 16368, 141>>, -108), Flt(1, <<28816, 1351, 4678, 206>>, -52)>>,
     <<Flt(1, <<29627, 16916, 18647, 238>>, -109), Flt(1, <<8995, 13254, 8588, 207>>, -52)>>,
     <<Flt(-1, <<8803, 17604, 5136, 190>>, -107), Flt(1, <<25957, 30395, 12697, 208>>, -52)>>,
     <<Flt(1, <<12757, 18372, 29211, 216>>, -107), Flt(1, <<11571, 22676, 17007, 209>>, -52)>>,
     <<Flt(-1, <<15125, 10105, 28487, 141>>, -106), Flt(1, <<9565, 25724, 21518, 210>>, -52)>>,
     <<Flt(1, <<12754, 14812, 12486, 134>>, -106), Flt(1, <<13144, 9825, 26232, 211>>, -52)>>,
     <<Flt(1, <<23219, 23782, 9745, 163>>, -107), Flt(1, <<32191, 10995, 31149, 212>>, -52)>>,
     <<Flt(-1, <<7604, 12061, 32566, 150>>, -107), Flt(1, <<29562, 32679, 3502, 214>>, -52)>>,
     <<Flt(1, <<13191, 9622, 27102, 224>>, -107), Flt(1, <<21421, 12981, 8830, 215>>, -52)>>,
     <<Flt(-1, <<23034, 5539, 28221, 131>>, -106), Flt(1, <<13926, 21275, 14364, 216>>, -52)>>,
     <<Flt(-1, <<11962, 11705, 3941, 174>>, -110), Flt(1, <<5627, 28830, 20106, 217>>, -52)>>,
     <<Flt(-1, <<30272, 31565, 4152, 133>>, -106), Flt(1, <<22842, 7114, 26058, 218>>, -52)>>,
     <<Flt(-1, <<4916, 29019, 23504, 198>>, -109), Flt(1, <<24135, 26102, 32219, 219>>, -52)>>,
     <<Flt(-1, <<2613, 22193, 15241, 143>>, -106), Flt(1, <<1610, 24898, 5824, 221>>, -52)>>,
     <<Flt(1, <<24013, 5311, 32604, 167>>, -108), Flt(1, <<16850, 8343, 12410, 222>>, -52)>>,
     <<Flt(-1, <<6316, 29989, 30703, 141>>, -106), Flt(1, <<7689, 14254, 19209, 223>>, -52)>>,
     <<Flt(1, <<3251, 24926, 15032, 155>>, -108), Flt(1, <<21148, 15114, 26223, 224>>, -52)>>,
     <<Flt(1, <<32148, 14655, 3273, 247>>, -107), Flt(1, <<20602, 16383, 685, 226>>, -52)>>,
     <<Flt(1, <<22956, 8722, 575, 167>>, -107), Flt(1, <<20811, 23727, 8132, 227>>, -52)>>,
     <<Flt(1, <<6759, 28828, 14012, 158>>, -109), Flt(1, <<26549, 10253, 15798, 228>>, -52)>>,
     <<Flt(1, <<6504, 22820, 11441, 187>>, -109), Flt(1, <<4201, 14815, 23683, 229>>, -52)>>,
     <<Flt(-1, <<13778, 1945, 10338, 132>>, -107), Flt(1, <<17402, 10939, 31789, 230>>, -52)>>,
     <<Flt(-1, <<31343, 32767, 13684, 253>>, -107), Flt(1, <<2428, 5135, 7349, 232>>, -52)>>,
     <<Flt(-1, <<10569, 28907, 14008, 128>>, -106), Flt(1, <<2546, 4123, 15900, 233>>, -52)>>,
     <<Flt(1, <<1959, 19578, 3606, 165>>, -108), Flt(1, <<9351, 14839, 24675, 234>>, -52)>>,
     <<Flt(-1, <<8719, 16512, 18040, 148>>, -107), Flt(1, <<920, 11667, 908, 236>>, -52)>>,
     <<Flt(1, <<4780, 11139, 26947, 242>>, -107), Flt(1, <<12933, 1974, 10136, 237>>, -52)>>,
     <<Flt(1, <<27467, 22530, 26982, 161>>, -107), Flt(1, <<13408, 26115, 19591, 238>>, -52)>>,
     <<Flt(-1, <<15903, 3944, 21636, 150>>, -107), Flt(1, <<7007, 26359, 29276, 239>>, -52)>>,
     <<Flt(-1, <<3529, 30350, 10980, 201>>, -107), Flt(1, <<8489, 10731, 6424, 241>>, -52)>>,
     <<Flt(1, <<2259, 16501, 22545, 165>>, -108), Flt(1, <<16374, 20246, 16571, 242>>, -52)>>,
     <<Flt(1, <<29297, 9018, 6065, 158>>, -107), Flt(1, <<19587, 30606, 26951, 243>>, -52)>>,
     <<Flt(-1, <<4592, 8103, 23626, 255>>, -107), Flt(1, <<4314, 17737, 4798, 245>>, -52)>>,
     <<Flt(-1, <<29821, 17478, 14947, 237>>, -107), Flt(1, <<26609, 23324, 15648, 246>>, -52)>>,
     <<Flt(1, <<8200, 852, 3825, 246>>, -107), Flt(1, <<23079, 23746, 26735, 247>>, -52)>>,
     <<Flt(1, <<27442, 1875, 11859, 161>>, -107), Flt(1, <<14999, 28375, 5292, 249>>, -52)>>,
     <<Flt(1, <<1518, 25507, 4772, 211>>, -107), Flt(1, <<17728, 14044, 16857, 250>>, -52)>>,
     <<Flt(-1, <<25581, 18551, 24299, 241>>, -107), Flt(1, <<15892, 23353, 28662, 251>>, -52)>>,
     <<Flt(1, <<19869, 6947, 9453, 188>>, -108), Flt(1, <<4312, 829, 7942, 253>>, -52)>>,
     <<Flt(1, <<19593, 705, 5893, 152>>, -110), Flt(1, <<29169, 22302, 20232, 254>>, -52)>> >>

\* 2^(k/128) * 2^bias as an f64 and its tail, k = 128 * q + j with 0 <= j < 128
exp_scale(k, bias) ==
  [ExpTab[(k % ExpN) + 1][2] EXCEPT !.e = @ + ((k - (k % ExpN)) \div ExpN) + bias]

exp_tail(k) == ExpTab[(k % ExpN) + 1][1]

\* k of exp as an f64: x * 128 / ln 2 rounded to a whole number
exp_kd(x) == FSub(FFma(x, InvLn2N, Shift), Shift)

\* r = x - k * ln 2 / 128
exp_r(x, kd) == FFma(kd, NegLn2loN, FFma(kd, NegLn2hiN, x))

\* tail + e^r - 1, r2 being r * r
exp_poly(r, r2, tail) ==
  FFma(FMul(r2, r2), FFma(r, ExpC[4], ExpC[3]), FFma(FFma(r, ExpC[2], ExpC[1]), r2, FAdd(r, tail)))

\* scale + scale * tmp
exp_fin(scale, tmp) == FFma(scale, tmp, scale)

\* the result y = scale + st below 1.0, which is to become a subnormal
\* number, with the error of that sum put back in
exp_sub(scale, st, y, hi) ==
  FSub(FAdd(FAdd(FAdd(FSub(One, hi), y), FAdd(FSub(scale, y), st)), hi), One)

\* v, or 0.0 when v is a zero
exp_zero(v) == IF IsZero(v) THEN Zero ELSE v

\* the result for k < 0 from that for k + 128 * 1022, st being scale * tmp
\* and y being scale + st
exp_low(scale, st, y) ==
  IF FLt(y, One) THEN FMul(exp_zero(exp_sub(scale, st, y, FAdd(One, y))), TwoTo(-1022))
  ELSE FMul(y, TwoTo(-1022))

exp_low_st(scale, st) == exp_low(scale, st, FAdd(scale, st))

\* the result for |x| >= 512, where the scale of k would overflow or
\* underflow: it is taken 2^1009 lower or 2^1022 higher
exp_special(k, tmp) ==
  IF k >= 0 THEN FMul(exp_fin(exp_scale(k, -1009), tmp), TwoTo(1009))
  ELSE exp_low_st(exp_scale(k, 1022), FMul(tmp, exp_scale(k, 1022)))

\* e^(k * ln 2 / 128 + r)
exp_inline(r, k, special) ==
  IF special THEN exp_special(k, exp_poly(r, FMul(r, r), exp_tail(k)))
  ELSE exp_fin(exp_scale(k, 0), exp_poly(r, FMul(r, r), exp_tail(k)))

\* e^x for x of ordinary size: e^r times the table's 2^(k/128), k is x * 128 /
\* ln 2 rounded to an integer and r what is left of x
exp_main(x) == exp_inline(exp_r(x, exp_kd(x)), FToInt(exp_kd(x)), Log2(x) >= 9)

\* x.exp()
FExp(x) ==
  IF IsNaN(x) THEN NaN
  ELSE IF IsInf(x) THEN (IF x.s = 1 THEN PInf ELSE Zero)
  ELSE IF IsZero(x) \/ Log2(x) < -54 THEN FAdd(One, x)
  ELSE IF Log2(x) >= 10 THEN (IF x.s = 1 THEN PInf ELSE Zero)
  ELSE Ap("exp_main", <<x>>)

\* ln 2 in two parts, the first short enough for k times it to be exact
Ln2hi == Flt(1, <<14336, 32244, 14603, 177>>, -53)
Ln2lo == Flt(1, <<26416, 10126, 19806, 247>>, -97)

\* the coefficients of r^2 .. r^6 in the polynomial of ln(1 + r), about -1/2,
\* 1/3, -1/4, 1/5 and -1/6, for r from the table
LogA ==
  << Flt(-1, <<1, 0, 0, 128>>, -53),
     Flt(1, <<12379, 10914, 21845, 170>>, -54),
     Flt(-1, <<17808, 32726, 32767, 255>>, -55),
     Flt(1, <<273, 18914, 26316, 204>>, -55),
     Flt(-1, <<18591, 18957, 21975, 170>>, -55) >>

\* the coefficients of r^2 .. r^12 in the polynomial of ln(1 + r) for x = 1 + r
\* near 1
LogB ==
  << Flt(-1, <<0, 0, 0, 128>>, -53),
     Flt(1, <<21879, 10922, 21845, 170>>, -54),
     Flt(-1, <<32203, 32767, 32767, 255>>, -55),
     Flt(1, <<23820, 13099, 26214, 204>>, -55),
     Flt(-1, <<17831, 10958, 21845, 170>>, -55),
     Flt(1, <<24112, 18057, 9362, 146>>, -55),
     Flt(-1, <<15717, 18564, 32766, 255>>, -56),
     Flt(1, <<22218, 20565, 17936, 227>>, -56),
     Flt(-1, <<26879, 1888, 26541, 204>>, -56),
     Flt(1, <<20613, 28511, 1547, 188>>, -56),
     Flt(-1, <<17869, 27554, 18509, 170>>, -56) >>

\* for i = 0 .. 127, at index i + 1: <<invc, logc>> with invc ~ 1 / c and
\* logc ~ ln c for a c near the middle of the i-th of 128 intervals of
\* [0.6875, 1.375)
LogTab ==
  << <<Flt(1, <<24223, 1985, 21443, 185>>, -52), Flt(-1, <<4096, 29645, 12797, 190>>, -54)>>,
     <<Flt(1, <<26911, 21593, 19937, 184>>, -52), Flt(-1, <<0, 1050, 16315, 187>>, -54)>>,
     <<Flt(1, <<13728, 4597, 18816, 183>>, -52), Flt(-1, <<24576, 9891, 20364, 184>>, -54)>>,
     <<Flt(1, <<3197, 15911, 18072, 182>>, -52), Flt(-1, <<30720, 28752, 24940, 181>>, -54)>>,
     <<Flt(1, <<13521, 6027, 17700, 181>>, -52), Flt(-1, <<30720, 8448, 30038, 178>>, -54)>>,
     <<Flt(1, <<3258, 26206, 17692, 180>>, -52), Flt(-1, <<0, 27696, 2881, 176>>, -54)>>,
     <<Flt(1, <<16931, 12356, 18044, 179>>, -52), Flt(-1, <<4096, 3361, 9002, 173>>, -54)>>,
     <<Flt(1, <<7897, 13130, 18750, 178>>, -52), Flt(-1, <<20480, 11270, 15629, 170>>, -54)>>,
     <<Flt(1, <<9412, 21790, 19802, 177>>, -52), Flt(-1, <<16384, 1750, 22751, 167>>, -54)>>,
     <<Flt(1, <<23572, 22331, 21197, 176>>, -52), Flt(-1, <<20480, 31568, 30367, 164>>, -54)>>,
     <<Flt(1, <<23628, 9612, 22929, 175>>, -52), Flt(-1, <<10240, 29459, 5704, 162>>, -54)>>,
     <<Flt(1, <<11343, 27426, 24990, 174>>, -52), Flt(-1, <<14336, 29537, 14288, 159>>, -54)>>,
     <<Flt(1, <<4318, 5815, 27379, 173>>, -52), Flt(-1, <<28672, 2334, 23353, 156>>, -54)>>,
     <<Flt(1, <<6776, 26034, 30087, 172>>, -52), Flt(-1, <<8192, 12155, 120, 154>>, -54)>>,
     <<Flt(1, <<22151, 9356, 344, 172>>, -52), Flt(-1, <<0, 24205, 10123, 151>>, -54)>>,
     <<Flt(1, <<27603, 7630, 3679, 171>>, -52), Flt(-1, <<24576, 28769, 20588, 148>>, -54)>>,
     <<Flt(1, <<32659, 17742, 7319, 170>>, -52), Flt(-1, <<2048, 6581, 31510, 145>>, -54)>>,
     <<Flt(1, <<17795, 1036, 11261, 169>>, -52), Flt(-1, <<4096, 21071, 10116, 143>>, -54)>>,
     <<Flt(1, <<15839, 14181, 15499, 168>>, -52), Flt(-1, <<30720, 22161, 21940, 140>>, -54)>>,
     <<Flt(1, <<24279, 3689, 20029, 167>>, -52), Flt(-1, <<30720, 13683, 1438, 138>>, -54)>>,
     <<Flt(1, <<10304, 8124, 24847, 166>>, -52), Flt(-1, <<6144, 10719, 14146, 135>>, -54)>>,
     <<Flt(1, <<9160, 241, 29947, 165>>, -52), Flt(-1, <<4096, 12726, 27284, 132>>, -54)>>,
     <<Flt(1, <<9610, 1984, 2559, 165>>, -52), Flt(-1, <<14336, 9415, 8089, 130>>, -54)>>,
     <<Flt(1, <<1076, 18857, 8212, 164>>, -52), Flt(-1, <<28672, 2829, 11401, 255>>, -55)>>,
     <<Flt(1, <<11531, 13874, 14136, 163>>, -52), Flt(-1, <<12288, 27183, 7465, 250>>, -55)>>,
     <<Flt(1, <<6228, 9842, 20327, 162>>, -52), Flt(-1, <<12288, 31264, 4368, 245>>, -55)>>,
     <<Flt(1, <<1114, 2409, 26781, 161>>, -52), Flt(-1, <<12288, 2515, 2101, 240>>, -55)>>,
     <<Flt(1, <<30971, 555, 725, 161>>, -52), Flt(-1, <<28672, 21231, 648, 235>>, -55)>>,
     <<Flt(1, <<29873, 13437, 7691, 160>>, -52), Flt(-1, <<4096, 2347, 4, 230>>, -55)>>,
     <<Flt(1, <<32399, 15023, 14909, 159>>, -52), Flt(-1, <<4096, 11538, 165, 225>>, -55)>>,
     <<Flt(1, <<19689, 16406, 22374, 158>>, -52), Flt(-1, <<4096, 6914, 1118, 220>>, -55)>>,
     <<Flt(1, <<16683, 33, 30083, 157>>, -52), Flt(-1, <<20480, 6567, 2855, 215>>, -55)>>,
     <<Flt(1, <<23224, 22251, 5264, 157>>, -52), Flt(-1, <<4096, 23589, 5376, 210>>, -55)>>,
     <<Flt(1, <<20482, 6975, 13451, 156>>, -52), Flt(-1, <<28672, 20539, 8669, 205>>, -55)>>,
     <<Flt(1, <<31260, 2824, 21871, 155>>, -52), Flt(-1, <<12288, 21136, 12725, 200>>, -55)>>,
     <<Flt(1, <<14050, 4954, 30521, 154>>, -52), Flt(-1, <<16384, 19595, 17538, 195>>, -55)>>,
     <<Flt(1, <<21568, 12443, 6630, 154>>, -52), Flt(-1, <<12288, 26664, 23102, 190>>, -55)>>,
     <<Flt(1, <<19236, 7679, 15731, 153>>, -52), Flt(-1, <<28672, 30916, 29408, 185>>, -55)>>,
     <<Flt(1, <<3401, 27458, 25053, 152>>, -52), Flt(-1, <<24576, 13934, 3690, 181>>, -55)>>,
     <<Flt(1, <<14736, 28284, 1824, 152>>, -52), Flt(-1, <<8192, 10607, 11461, 176>>, -55)>>,
     <<Flt(1, <<30785, 30507, 11578, 151>>, -52), Flt(-1, <<12288, 27720, 19957, 171>>, -55)>>,
     <<Flt(1, <<10705, 1075, 21544, 150>>, -52), Flt(-1, <<12288, 8068, 29166, 166>>, -55)>>,
     <<Flt(1, <<32042, 20847, 31718, 149>>, -52), Flt(-1, <<0, 9124, 6321, 162>>, -55)>>,
     <<Flt(1, <<7083, 29720, 9329, 149>>, -52), Flt(-1, <<0, 30982, 16938, 157>>, -55)>>,
     <<Flt(1, <<13616, 16425, 19913, 148>>, -52), Flt(-1, <<0, 22162, 28261, 152>>, -55)>>,
     <<Flt(1, <<8693, 11951, 30697, 147>>, -52), Flt(-1, <<16384, 8520, 7506, 148>>, -55)>>,
     <<Flt(1, <<15295, 13882, 8910, 147>>, -52), Flt(-1, <<8192, 28915, 20199, 143>>, -55)>>,
     <<Flt(1, <<30141, 1823, 20086, 146>>, -52), Flt(-1, <<8192, 19033, 800, 139>>, -55)>>,
     <<Flt(1, <<2107, 21906, 31454, 145>>, -52), Flt(-1, <<8192, 12270, 14845, 134>>, -55)>>,
     <<Flt(1, <<16566, 22354, 10244, 145>>, -52), Flt(-1, <<8192, 5117, 29553, 129>>, -55)>>,
     <<Flt(1, <<16690, 11672, 21990, 144>>, -52), Flt(-1, <<0, 30871, 24310, 250>>, -56)>>,
     <<Flt(1, <<31899, 15269, 1152, 144>>, -52), Flt(-1, <<16384, 11392, 23586, 241>>, -56)>>,
     <<Flt(1, <<18443, 4762, 13265, 143>>, -52), Flt(-1, <<16384, 32242, 24160, 232>>, -56)>>,
     <<Flt(1, <<25961, 9502, 25557, 142>>, -52), Flt(-1, <<8192, 7601, 26013, 223>>, -56)>>,
     <<Flt(1, <<32380, 8878, 5260, 142>>, -52), Flt(-1, <<24576, 16478, 29156, 214>>, -56)>>,
     <<Flt(1, <<9961, 27030, 17905, 141>>, -52), Flt(-1, <<0, 20049, 783, 206>>, -56)>>,
     <<Flt(1, <<6838, 6232, 30724, 140>>, -52), Flt(-1, <<16384, 26341, 6426, 197>>, -56)>>,
     <<Flt(1, <<28861, 30572, 10945, 140>>, -52), Flt(-1, <<0, 26456, 13318, 188>>, -56)>>,
     <<Flt(1, <<15542, 19423, 24104, 139>>, -52), Flt(-1, <<0, 2672, 21445, 179>>, -56)>>,
     <<Flt(1, <<12762, 27288, 4660, 139>>, -52), Flt(-1, <<0, 23311, 30777, 170>>, -56)>>,
     <<Flt(1, <<24541, 8270, 18150, 138>>, -52), Flt(-1, <<24576, 15683, 8563, 162>>, -56)>>,
     <<Flt(1, <<21068, 18533, 31802, 137>>, -52), Flt(-1, <<8192, 6869, 20325, 153>>, -56)>>,
     <<Flt(1, <<31194, 25633, 12845, 137>>, -52), Flt(-1, <<24576, 29066, 487, 145>>, -56)>>,
     <<Flt(1, <<13617, 20953, 26816, 136>>, -52), Flt(-1, <<8192, 12484, 14618, 136>>, -56)>>,
     <<Flt(1, <<13487, 13576, 8175, 136>>, -52), Flt(-1, <<0, 21924, 27057, 255>>, -57)>>,
     <<Flt(1, <<27571, 7836, 22456, 135>>, -52), Flt(-1, <<16384, 5358, 27189, 238>>, -57)>>,
     <<Flt(1, <<8142, 14933, 4121, 135>>, -52), Flt(-1, <<0, 18698, 29619, 221>>, -57)>>,
     <<Flt(1, <<9505, 18009, 18705, 134>>, -52), Flt(-1, <<16384, 37, 1573, 205>>, -57)>>,
     <<Flt(1, <<6170, 31173, 669, 134>>, -52), Flt(-1, <<16384, 26117, 8544, 188>>, -57)>>,
     <<Flt(1, <<14033, 1932, 15550, 133>>, -52), Flt(-1, <<0, 20397, 17785, 171>>, -57)>>,
     <<Flt(1, <<4921, 12608, 30574, 132>>, -52), Flt(-1, <<0, 4811, 29225, 154>>, -57)>>,
     <<Flt(1, <<26591, 24229, 12974, 132>>, -52), Flt(-1, <<16384, 18474, 10125, 138>>, -57)>>,
     <<Flt(1, <<10491, 24220, 28284, 131>>, -52), Flt(-1, <<0, 1495, 19202, 243>>, -58)>>,
     <<Flt(1, <<3865, 6251, 10966, 131>>, -52), Flt(-1, <<0, 9381, 22469, 210>>, -58)>>,
     <<Flt(1, <<31020, 19417, 26554, 130>>, -52), Flt(-1, <<0, 7939, 30091, 177>>, -58)>>,
     <<Flt(1, <<11408, 7074, 9511, 130>>, -52), Flt(-1, <<0, 6484, 9198, 145>>, -58)>>,
     <<Flt(1, <<11689, 3553, 25371, 129>>, -52), Flt(-1, <<0, 16882, 17900, 225>>, -59)>>,
     <<Flt(1, <<12969, 9970, 8596, 129>>, -52), Flt(-1, <<0, 15188, 25813, 160>>, -59)>>,
     <<Flt(1, <<29512, 20436, 24720, 128>>, -52), Flt(-1, <<0, 1496, 18447, 192>>, -60)>>,
     <<Flt(1, <<12693, 3113, 8208, 128>>, -52), Flt(-1, <<0, 29256, 4133, 128>>, -61)>>,
     <<Flt(1, <<31258, 28237, 127, 255>>, -53), Flt(1, <<0, 2336, 16334, 255>>, -61)>>,
     <<Flt(1, <<27252, 1219, 1139, 253>>, -53), Flt(1, <<0, 27258, 28932, 190>>, -59)>>,
     <<Flt(1, <<6446, 24835, 3138, 251>>, -53), Flt(1, <<0, 2437, 14991, 158>>, -58)>>,
     <<Flt(1, <<11725, 31197, 6104, 249>>, -53), Flt(1, <<0, 10514, 32516, 220>>, -58)>>,
     <<Flt(1, <<5095, 1826, 10016, 247>>, -53), Flt(1, <<0, 7202, 17251, 141>>, -57)>>,
     <<Flt(1, <<12715, 29079, 14849, 245>>, -53), Flt(1, <<16384, 8195, 10607, 172>>, -57)>>,
     <<Flt(1, <<3227, 17722, 20586, 243>>, -53), Flt(1, <<0, 433, 29197, 202>>, -57)>>,
     <<Flt(1, <<6581, 1557, 27206, 241>>, -53), Flt(1, <<0, 24239, 7595, 233>>, -57)>>,
     <<Flt(1, <<6742, 4801, 1920, 240>>, -53), Flt(1, <<16384, 19249, 22115, 131>>, -56)>>,
     <<Flt(1, <<15256, 19183, 10247, 238>>, -53), Flt(1, <<8192, 17946, 20439, 146>>, -56)>>,
     <<Flt(1, <<4355, 5881, 19400, 236>>, -53), Flt(1, <<0, 5744, 15222, 161>>, -56)>>,
     <<Flt(1, <<23758, 19958, 29361, 234>>, -53), Flt(1, <<16384, 3759, 6502, 176>>, -56)>>,
     <<Flt(1, <<24221, 21693, 7346, 233>>, -53), Flt(1, <<0, 27348, 27096, 190>>, -56)>>,
     <<Flt(1, <<11469, 31958, 18872, 231>>, -53), Flt(1, <<24576, 7224, 11533, 205>>, -56)>>,
     <<Flt(1, <<30978, 17742, 31158, 229>>, -53), Flt(1, <<24576, 30234, 25374, 219>>, -56)>>,
     <<Flt(1, <<2157, 23150, 11417, 228>>, -53), Flt(1, <<8192, 26062, 3148, 234>>, -56)>>,
     <<Flt(1, <<22532, 31418, 25170, 226>>, -53), Flt(1, <<24576, 25532, 10437, 248>>, -56)>>,
     <<Flt(1, <<8076, 26487, 6868, 225>>, -53), Flt(1, <<16384, 22306, 7252, 131>>, -55)>>,
     <<Flt(1, <<26431, 24025, 22031, 223>>, -53), Flt(1, <<12288, 1317, 7702, 138>>, -55)>>,
     <<Flt(1, <<5825, 27575, 5109, 222>>, -53), Flt(1, <<12288, 7060, 6587, 145>>, -55)>>,
     <<Flt(1, <<18984, 6412, 21624, 220>>, -53), Flt(1, <<20480, 19850, 3934, 152>>, -55)>>,
     <<Flt(1, <<15916, 3038, 6027, 219>>, -53), Flt(1, <<4096, 30822, 32524, 158>>, -55)>>,
     <<Flt(1, <<2187, 20371, 23841, 217>>, -53), Flt(1, <<0, 22261, 26841, 165>>, -55)>>,
     <<Flt(1, <<12362, 16954, 9516, 216>>, -53), Flt(1, <<28672, 20899, 19684, 172>>, -55)>>,
     <<Flt(1, <<28542, 3045, 28578, 214>>, -53), Flt(1, <<28672, 18481, 11060, 179>>, -55)>>,
     <<Flt(1, <<15778, 25280, 15476, 213>>, -53), Flt(1, <<4096, 22733, 995, 186>>, -55)>>,
     <<Flt(1, <<22695, 32678, 2968, 212>>, -53), Flt(1, <<28672, 27189, 22275, 192>>, -55)>>,
     <<Flt(1, <<29579, 24082, 23811, 210>>, -53), Flt(1, <<0, 10733, 9381, 199>>, -55)>>,
     <<Flt(1, <<19239, 8534, 12458, 209>>, -53), Flt(1, <<16384, 1520, 27864, 205>>, -55)>>,
     <<Flt(1, <<29393, 10023, 1664, 208>>, -53), Flt(1, <<0, 14424, 12212, 212>>, -55)>>,
     <<Flt(1, <<15387, 18870, 24188, 206>>, -53), Flt(1, <<20480, 14339, 27973, 218>>, -55)>>,
     <<Flt(1, <<12688, 2959, 14484, 205>>, -53), Flt(1, <<16384, 6521, 9631, 225>>, -55)>>,
     <<Flt(1, <<20015, 25903, 5307, 204>>, -53), Flt(1, <<24576, 10896, 22743, 231>>, -55)>>,
     <<Flt(1, <<19317, 23880, 29419, 202>>, -53), Flt(1, <<16384, 26765, 1780, 238>>, -55)>>,
     <<Flt(1, <<18488, 15310, 21274, 201>>, -53), Flt(1, <<24576, 29087, 12294, 244>>, -55)>>,
     <<Flt(1, <<21222, 24270, 13628, 200>>, -53), Flt(1, <<4096, 47, 21543, 250>>, -55)>>,
     <<Flt(1, <<22429, 7679, 6474, 199>>, -53), Flt(1, <<14336, 9279, 14768, 128>>, -54)>>,
     <<Flt(1, <<124, 16280, 32570, 197>>, -53), Flt(1, <<20480, 7463, 18144, 131>>, -54)>>,
     <<Flt(1, <<17166, 13693, 26371, 196>>, -53), Flt(1, <<28672, 15628, 20910, 134>>, -54)>>,
     <<Flt(1, <<6139, 21574, 20638, 195>>, -53), Flt(1, <<20480, 26263, 23068, 137>>, -54)>>,
     <<Flt(1, <<6664, 22887, 15362, 194>>, -53), Flt(1, <<18432, 20038, 24629, 140>>, -54)>>,
     <<Flt(1, <<15957, 20682, 10535, 193>>, -53), Flt(1, <<0, 16793, 25599, 143>>, -54)>>,
     <<Flt(1, <<608, 11240, 6150, 192>>, -53), Flt(1, <<26624, 11974, 25983, 146>>, -54)>>,
     <<Flt(1, <<9001, 18369, 2197, 191>>, -53), Flt(1, <<10240, 4649, 25792, 149>>, -54)>>,
     <<Flt(1, <<13741, 28601, 31437, 189>>, -53), Flt(1, <<24576, 8326, 25032, 152>>, -54)>>,
     <<Flt(1, <<9666, 20270, 28329, 188>>, -53), Flt(1, <<6144, 23512, 23705, 155>>, -54)>>,
     <<Flt(1, <<1623, 25646, 25631, 187>>, -53), Flt(1, <<12288, 30558, 21823, 158>>, -54)>>,
     <<Flt(1, <<4876, 14252, 23339, 186>>, -53), Flt(1, <<24576, 18015, 19387, 161>>, -54)>> >>

MinusOne == FromInt(-1)

\* ln x is taken from a polynomial in x - 1 alone for LogLo <= x < LogHi
LogLo == Dec(9375, 10000)
LogHi == Dec(4361, 4096)

\* the significand of a finite x # 0 with its highest bit at MantBits - 1
log_m(x) == BShl(x.m, MantBits - BBitLen(x.m))

\* 128 * k + i for x = z * 2^k with z in [0.6875, 1.375), the i-th interval
log_u(x) == ((Log2(x) * ExpN) + BToInt(BShr(log_m(x), MantBits - 8))) - 48

log_i(x) == log_u(x) % ExpN
log_k(x) == (log_u(x) - log_i(x)) \div ExpN

\* z = x / 2^k
log_z(x, k) == Flt(1, log_m(x), (Log2(x) - k) - (MantBits - 1))

\* ln x = k * ln 2 + ln c + ln(1 + r) from r = z / c - 1, w = k * ln 2 + ln c
\* and hi = w + r
log_sum(kd, r, r2, w, hi) ==
  FAdd(FFma(FMul(r, r2), FFma(FFma(r, LogA[5], LogA[4]), r2, FFma(r, LogA[3], LogA[2])),
            FFma(r2, LogA[1], FFma(kd, Ln2lo, FAdd(FSub(w, hi), r)))),
       hi)

log_main(kd, r, w) == log_sum(kd, r, FMul(r, r), w, FAdd(r, w))

log_far(z, kd, c) == log_main(kd, FFma(z, c[1], MinusOne), FFma(kd, Ln2hi, c[2]))

\* the polynomial of ln(1 + r) - r + r^2 / 2 over r^3
log_near_poly(r, r2, r3) ==
  FFma(FFma(FFma(r3, LogB[11], FFma(r2, LogB[10], FFma(r, LogB[9], LogB[8]))), r3,
            FFma(r2, LogB[7], FFma(r, LogB[6], LogB[5]))),
       r3, FFma(r2, LogB[4], FFma(r, LogB[3], LogB[2])))

\* the upper half of the bits of r
log_rhi(r) == FFma(FNeg(TwoTo(27)), r, FFma(r, TwoTo(27), r))

\* r - r^2 / 2 + r^3 * y in two parts, rhi2 = rhi * rhi and hi = r - rhi2 / 2
log_near_sum(r, r3, y, rhi, rhi2, hi) ==
  FAdd(hi, FFma(y, r3, FFma(FMul(LogB[1], FSub(r, rhi)), FAdd(r, rhi),
                            FFma(rhi2, LogB[1], FSub(r, hi)))))

log_near_hi(r, r3, y, rhi, rhi2) == log_near_sum(r, r3, y, rhi, rhi2, FFma(rhi2, LogB[1], r))

log_near_r(r, r2, r3, rhi) ==
  log_near_hi(r, r3, log_near_poly(r, r2, r3), rhi, FMul(rhi, rhi))

\* ln(1 + r) for 1 + r near 1
log_near(r) == log_near_r(r, FMul(r, r), FMul(r, FMul(r, r)), log_rhi(r))

\* ln x for finite x > 0 other than 1: by the polynomial in x - 1 when x is
\* near 1, and otherwise from the table
log_pos(x) ==
  IF ~FLt(x, LogLo) /\ FLt(x, LogHi) THEN log_near(FSub(x, One))
  ELSE log_far(log_z(x, log_k(x)), FromInt(log_k(x)), LogTab[log_i(x) + 1])

\* x.ln()
FLn(x) ==
  IF IsNaN(x) THEN NaN
  ELSE IF IsZero(x) THEN NInf
  ELSE IF x.s < 0 THEN NaN
  ELSE IF IsInf(x) THEN PInf
  ELSE IF x = One THEN Zero
  ELSE Ap("log_pos", <<x>>)

\* std::f64::consts
PI == Lit(<<3141, 5926, 5358, 9793>>, 15)
E == Lit(<<2718, 2818, 2845, 9045>>, 15)

\* ln E as pow takes it, in two parts hi + lo (0x1.0000000000000p+0, -0x1.ea85574000000p-55)
PowLnEhi == Flt(1, <<0, 0, 0, 128>>, -52)
PowLnElo == Flt(-1, <<0, 26624, 8533, 245>>, -107)

\* e^(ehi + elo) of pow
pow_exp(ehi, elo) ==
  IF Log2(ehi) < -54 THEN FAdd(One, ehi)
  ELSE IF Log2(ehi) >= 10 THEN (IF ehi.s = 1 THEN PInf ELSE Zero)
  ELSE exp_inline(FAdd(elo, exp_r(ehi, exp_kd(ehi))), FToInt(exp_kd(ehi)), Log2(ehi) >= 9)

\* e^(x * ln E), ehi being x * hi
pow_e(x, ehi) == pow_exp(ehi, FFma(x, PowLnElo, FFma(PowLnEhi, x, FNeg(ehi))))

\* E to the power x for x of ordinary size
pow_main(x) == pow_e(x, FMul(x, PowLnEhi))

\* E.powf(x)
EPowf(x) ==
  IF IsNaN(x) THEN NaN
  ELSE IF IsZero(x) THEN One
  ELSE IF IsInf(x) THEN (IF x.s = 1 THEN PInf ELSE Zero)
  ELSE IF Log2(x) < -65 THEN FAdd(One, x)
  ELSE IF Log2(x) >= 63 THEN (IF x.s = 1 THEN PInf ELSE Zero)
  ELSE Ap("pow_main", <<x>>)

\* ------------------------------------------------------- types of lib.rs

OptionKind == {"Call", "Put"}
Position == {"Long", "Short"}
MathError == {"NonPositiveStrike", "NonPositiveStock", "NonPositivePremium"}

\* Option<f64>
None == [some |-> FALSE, val |-> Zero]
Some(x) == [some |-> TRUE, val |-> x]
unwrap_or_default(o) == IF o.some THEN o.val ELSE Zero

\* MathResult = Result<f64, MathError>
Ok(x) == [tag |-> "Ok", val |-> x, err |-> "none"]
Err(e) == [tag |-> "Err", val |-> Zero, err |-> e]

\* ------------------------------------------------------------ functions

\* break_even_point with the Put arm adding the premium
break_even_point_put_adds(opt, strike, premium) ==
  IF FLt(strike, Zero) THEN Err("NonPositiveStrike")
  ELSE LET pr == unwrap_or_default(premium)
       IN  IF FLt(pr, Zero) THEN Err("NonPositivePremium")
           ELSE Ok(FAdd(strike, pr))

break_even_point(opt, strike, premium) ==
  IF FLt(strike, Zero) THEN Err("NonPositiveStrike")
  ELSE LET pr == unwrap_or_default(premium)
       IN  IF FLt(pr, Zero) THEN Err("NonPositivePremium")
           ELSE IF opt = "Call" THEN Ok(FAdd(strike, pr))
           ELSE Ok(FSub(strike, pr))

\* the four match arms of payoff, after validation; tie is the operand max
\* returns when the difference is a zero
payoff_arms(pos, opt, strike, stock, pr, tie) ==
  IF pos = "Long"
  THEN IF opt = "Call" THEN Ok(FMax(FSub(stock, strike), Zero, tie))
       ELSE Ok(FMax(FSub(strike, stock), Zero, tie))
  ELSE IF opt = "Call"
       THEN Ok(FSub(pr, FMax(FSub(stock, strike), Zero, tie)))
       ELSE Ok(FSub(pr, FMax(FSub(strike, stock), Zero, tie)))

\* payoff checking the stock before the strike
payoff_stock_first(pos, opt, strike, stock, premium, tie) ==
  IF FLt(stock, Zero) THEN Err("NonPositiveStock")
  ELSE IF FLt(strike, Zero) THEN Err("NonPositiveStrike")
  ELSE LET pr == unwrap_or_default(premium)
       IN  IF FLt(pr, Zero) THEN Err("NonPositivePremium")
           ELSE payoff_arms(pos, opt, strike, stock, pr, tie)

\* payoff with the Short Put arm using stock - strike
payoff_short_put_swapped(pos, opt, strike, stock, premium, tie) ==
  IF FLt(strike, Zero) THEN Err("NonPositiveStrike")
  ELSE IF FLt(stock, Zero) THEN Err("NonPositiveStock")
  ELSE LET pr == unwrap_or_default(premium)
       IN  IF FLt(pr, Zero) THEN Err("NonPositivePremium")
           ELSE IF pos = "Short" /\ opt = "Put"
                THEN Ok(FSub(pr, FMax(FSub(stock, strike), Zero, tie)))
                ELSE payoff_arms(pos, opt, strike, stock, pr, tie)

\* payoff with the Long Call arm missing its max(.., 0.0)
payoff_long_call_unclamped(pos, opt, strike, stock, premium, tie) ==
  IF FLt(strike, Zero) THEN Err("NonPositiveStrike")
  ELSE IF FLt(stock, Zero) THEN Err("NonPositiveStock")
  ELSE LET pr == unwrap_or_default(premium)
       IN  IF FLt(pr, Zero) THEN Err("NonPositivePremium")
           ELSE IF pos = "Long" /\ opt = "Call"
                THEN Ok(FSub(stock, strike))
                ELSE payoff_arms(pos, opt, strike, stock, pr, tie)

\* payoff with the Long arms net of the premium paid
payoff_long_net_of_premium(pos, opt, strike, stock, premium, tie) ==
  IF FLt(strike, Zero) THEN Err("NonPositiveStrike")
  ELSE IF FLt(stock, Zero) THEN Err("NonPositiveStock")
  ELSE LET pr == unwrap_or_default(premium)
       IN  IF FLt(pr, Zero) THEN Err("NonPositivePremium")
           ELSE IF pos = "Long"
                THEN Ok(FSub(payoff_arms(pos, opt, strike, stock, pr, tie).val, pr))
                ELSE payoff_arms(pos, opt, strike, stock, pr, tie)

payoff(pos, opt, strike, stock, premium, tie) ==
  IF FLt(strike, Zero) THEN Err("NonPositiveStrike")
  ELSE IF FLt(stock, Zero) THEN Err("NonPositiveStock")
  ELSE LET pr == unwrap_or_default(premium)
       IN  IF FLt(pr, Zero) THEN Err("NonPositivePremium")
           ELSE payoff_arms(pos, opt, strike, stock, pr, tie)

\* the literals of norm_dist
Lit_p == Dec(2316419, 10000000)
Lit_b1 == Dec(319381530, 1000000000)
Lit_b2 == Dec(356563782, 1000000000)
Lit_b3 == Dec(1781477937, 1000000000)
Lit_b4 == Dec(1821255978, 1000000000)
Lit_b5 == Dec(1330274429, 1000000000)
Half == Dec(5, 10)

\* (2.0 * PI).ln()
LnTwoPi == FLn(FMul(Two, PI))

\* y of norm_dist, t and t2 being its t and t2
norm_dist_y(t, t2) ==
  FMul(t, FAdd(FSub(Lit_b1, FMul(Lit_b2, t)),
               FMul(FAdd(FSub(Lit_b3, FMul(Lit_b4, t)), FMul(Lit_b5, t2)), t2)))

\* the two returns of norm_dist, y being its y
norm_dist_return(z, y) ==
  IF FGt(z, Zero)
  THEN FSub(One, FMul(FExp(FMul(FNeg(FAdd(LnTwoPi, FPowi2(z))), Half)), y))
  ELSE FMul(FExp(FMul(FNeg(FAdd(LnTwoPi, FNeg(FPowi2(z)))), Half)), y)

\* the two returns of norm_dist with the density exp(-(ln(2 pi) + z^2) / 2)
\* on both of them
norm_dist_return_same_density(z, y) ==
  IF FGt(z, Zero)
  THEN FSub(One, FMul(FExp(FMul(FNeg(FAdd(LnTwoPi, FPowi2(z))), Half)), y))
  ELSE FMul(FExp(FMul(FNeg(FAdd(LnTwoPi, FPowi2(z))), Half)), y)

\* norm_dist with that density
norm_dist_same_density(z) ==
  LET t == FDiv(One, FAdd(One, FMul(Lit_p, FAbs(z))))
  IN  norm_dist_return_same_density(z, norm_dist_y(t, FPowi2(t)))

norm_dist(z) ==
  LET t == FDiv(One, FAdd(One, FMul(Lit_p, FAbs(z))))
  IN  norm_dist_return(z, norm_dist_y(t, FPowi2(t)))

\* BlackScholesModel::new
BlackScholesModel(opt, strike, stock, interest_rate, volatility, time_to_expire, dividend) ==
  [opt |-> opt, strike |-> strike, stock |-> stock, interest_rate |-> interest_rate,
   volatility |-> volatility, time_to_expire |-> time_to_expire, dividend |-> dividend]

\* d1 as (ln(stock / strike) + (rate - dividend + volatility^2 / 2) * time)
\* / (volatility * sqrt(time))
d1_textbook(self) ==
  FDiv(FAdd(FLn(FDiv(self.stock, self.strike)),
            FMul(FAdd(FSub(self.interest_rate, unwrap_or_default(self.dividend)),
                      FDiv(FPowi2(self.volatility), Two)),
                 self.time_to_expire)),
       FMul(self.volatility, FSqrt(self.time_to_expire)))

\* d1 of BlackScholesModel::price
d1(self) ==
  FAdd(FSub(FAdd(FLn(FDiv(self.stock, self.strike)), self.interest_rate),
            unwrap_or_default(self.dividend)),
       FMul(FDiv(FMul(FDiv(FPowi2(self.volatility), Two), self.time_to_expire),
                 self.volatility),
            FSqrt(self.time_to_expire)))

\* d2 of BlackScholesModel::price, d_1 being its d1
d2(self, d_1) == FSub(d_1, FMul(self.volatility, FSqrt(self.time_to_expire)))

\* the match arms of BlackScholesModel::price, dividend, d_1 and d_2 being
\* its dividend, d1 and d2
price_arms(self, dividend, d_1, d_2) ==
  IF self.opt = "Call"
  THEN Ok(FSub(FMul(FMul(self.stock, EPowf(FMul(FNeg(dividend), self.time_to_expire))),
                    Ap("norm_dist", <<d_1>>)),
               FMul(FMul(self.strike,
                         EPowf(FMul(FNeg(self.interest_rate), self.time_to_expire))),
                    Ap("norm_dist", <<d_2>>))))
  ELSE Ok(FSub(FMul(FMul(self.strike,
                         EPowf(FMul(FNeg(self.interest_rate), self.time_to_expire))),
                    Ap("norm_dist", <<FNeg(d_2)>>)),
               FMul(FMul(self.stock, EPowf(FMul(FNeg(dividend), self.time_to_expire))),
                    Ap("norm_dist", <<FNeg(d_1)>>))))

\* price validating strike and stock the way payoff does
price_validated(self) ==
  IF FLt(self.strike, Zero) THEN Err("NonPositiveStrike")
  ELSE IF FLt(self.stock, Zero) THEN Err("NonPositiveStock")
  ELSE LET d_1 == d1(self)
       IN  price_arms(self, unwrap_or_default(self.dividend), d_1, d2(self, d_1))

\* BlackScholesModel::price
price(self) ==
  LET d_1 == d1(self)
  IN  price_arms(self, unwrap_or_default(self.dividend), d_1, d2(self, d_1))

\* ------------------------------------------------------------ operators

\* the operator named f applied to the arguments a
Ap(f, a) ==
  CASE f = "Round" -> Round(a[1], a[2], a[3], a[4])
    [] f = "AddFin" -> AddFin(a[1], a[2])
    [] f = "DivFin" -> DivFin(a[1], a[2], a[3], a[4])
    [] f = "SqrtFin" -> SqrtFin(a[1])
    [] f = "FmaFin" -> FmaFin(a[1], a[2])
    [] f = "exp_main" -> exp_main(a[1])
    [] f = "log_pos" -> log_pos(a[1])
    [] f = "pow_main" -> pow_main(a[1])
    [] f = "break_even_point" -> break_even_point(a[1], a[2], a[3])
    [] f = "payoff" -> payoff(a[1], a[2], a[3], a[4], a[5], a[6])
    [] f = "norm_dist" -> norm_dist(a[1])
    [] f = "price" -> price(a[1])


\* --------------------------------------------------------------- inputs

MaxMoney == 2
MaxPx == 1
MaxZ == 7

\* strike, stock and premium amounts handed to break_even_point and payoff:
\* whole amounts from -1.0 to MaxMoney, the decimal amounts 0.1 and 0.7, the
\* zero -0.0 and the whole amount 2^54, next to which the odd numbers are no
\* f64
Money ==
  {FromInt(n) : n \in -1..MaxMoney} \cup {Dec(n, 10) : n \in {1, 7}} \cup {NegZero, TwoTo(54)}
Premiums == {None} \cup {Some(m) : m \in Money}

\* z-scores handed to norm_dist, in steps of 0.5, and the tests' 0.39
ZScores == {Dec(n, 100) : n \in {50 * k : k \in -MaxZ..MaxZ} \cup {39, -39}}

\* contract parameters handed to BlackScholesModel::new: negative, zero and
\* positive prices and the tests' strike and stock, the tests' rate,
\* volatility and dividend, a zero volatility, a zero time to expiry and an
\* absent dividend
Prices == {FromInt(n) : n \in -1..MaxPx} \cup {FromInt(58), FromInt(60)}
Rates == {Dec(35, 1000)}
Volatilities == {Zero, Dec(2, 10)}
Times == {Zero, Half}
Dividends == {None, Some(Dec(125, 10000))}

\* ---------------------------------------------------------------- state

VARIABLES op, args, res

vars == <<op, args, res>>

NoArgs == <<>>
NoRes == [tag |-> "None", val |-> Zero, err |-> "none"]

Init ==
  /\ op = "idle"
  /\ args = NoArgs
  /\ res = NoRes

CallBreakEven ==
  /\ op = "idle"
  /\ \E opt \in OptionKind, strike \in Money, premium \in Premiums :
       /\ op' = "break_even_point"
       /\ args' = [opt |-> opt, strike |-> strike, premium |-> premium]
       /\ res' = Ap("break_even_point", <<opt, strike, premium>>)

CallPayoff ==
  /\ op = "idle"
  /\ \E pos \in Position, opt \in OptionKind, strike \in Money, stock \in Money,
        premium \in Premiums, tie \in MaxTie :
       /\ op' = "payoff"
       /\ args' = [pos |-> pos, opt |-> opt, strike |-> strike, stock |-> stock,
                   premium |-> premium]
       /\ res' = Ap("payoff", <<pos, opt, strike, stock, premium, tie>>)

CallNormDist ==
  /\ op = "idle"
  /\ \E z \in ZScores :
       /\ op' = "norm_dist"
       /\ args' = [z |-> z]
       /\ res' = Ap("norm_dist", <<z>>)

New ==
  /\ op = "idle"
  /\ \E opt \in OptionKind, strike \in Prices, stock \in Prices, r \in Rates,
        v \in Volatilities, t \in Times, q \in Dividends :
       /\ op' = "new"
       /\ args' = BlackScholesModel(opt, strike, stock, r, v, t, q)
       /\ res' = NoRes

\* price(&self): the model is read, not written
Price ==
  /\ op \in {"new", "price"}
  /\ op' = "price"
  /\ args' = args
  /\ res' = Ap("price", <<args>>)

\* the caller is done with the result
Return ==
  /\ op # "idle"
  /\ op' = "idle"
  /\ args' = NoArgs
  /\ res' = NoRes

Next ==
  \/ CallBreakEven
  \/ CallPayoff
  \/ CallNormDist
  \/ New
  \/ Price
  \/ Return

Spec == Init /\ [][Next]_vars

\* --------------------------------------------------------------- claims

\* the premium a call was given, 0.0 when absent
PremiumOf(a) == unwrap_or_default(a.premium)

\* the inputs pass every precondition of break_even_point / payoff
ValidInputs ==
  /\ ~FLt(args.strike, Zero)
  /\ (op = "payoff" => ~FLt(args.stock, Zero))
  /\ ~FLt(PremiumOf(args), Zero)

\* C1: break_even_point and payoff return the error of the first violated
\* precondition in the order strike, stock (payoff only), premium, and are Ok
\* only when none is violated; an absent premium never gives NonPositivePremium.
C1_ValidationOrder ==
  op \in {"break_even_point", "payoff"} =>
    /\ IF FLt(args.strike, Zero) THEN res = Err("NonPositiveStrike")
       ELSE IF op = "payoff" /\ FLt(args.stock, Zero) THEN res = Err("NonPositiveStock")
       ELSE IF args.premium.some /\ FLt(args.premium.val, Zero)
            THEN res = Err("NonPositivePremium")
       ELSE res.tag = "Ok"
    /\ ~args.premium.some => res # Err("NonPositivePremium")

\* payoff was called with all three preconditions violated and reported the strike
C1_Witness ==
  /\ op = "payoff"
  /\ FLt(args.strike, Zero)
  /\ FLt(args.stock, Zero)
  /\ args.premium.some
  /\ FLt(args.premium.val, Zero)
  /\ res = Err("NonPositiveStrike")

\* C2: for strike >= 0 and premium absent or >= 0, break_even_point is
\* Ok(strike + p) for Call and Ok(strike - p) for Put, p being 0.0 when the
\* premium is absent; with None the result is the strike and equals that of
\* Some(0.0).
C2_BreakEvenValue ==
  (op = "break_even_point" /\ ValidInputs) =>
    /\ res.tag = "Ok"
    /\ FEq(res.val, IF args.opt = "Call" THEN FAdd(args.strike, PremiumOf(args))
                    ELSE FSub(args.strike, PremiumOf(args)))
    /\ ~args.premium.some =>
         /\ FEq(res.val, args.strike)
         /\ res = break_even_point(args.opt, args.strike, Some(Zero))

\* a Put with a positive premium below the strike was evaluated
C2_Witness ==
  /\ op = "break_even_point"
  /\ args.opt = "Put"
  /\ args.premium.some
  /\ FGt(args.premium.val, Zero)
  /\ FGt(args.strike, args.premium.val)
  /\ res.tag = "Ok"
  /\ FGt(res.val, Zero)
  /\ FLt(res.val, args.strike)

\* max(x, 0) of the claim: x when it is positive, zero otherwise
C3_Max0(x) == IF FGt(x, Zero) THEN x ELSE Zero

\* C3: for valid inputs payoff is Ok of max(stock - strike, 0) for Long Call,
\* max(strike - stock, 0) for Long Put, premium - max(stock - strike, 0) for
\* Short Call and premium - max(strike - stock, 0) for Short Put.
C3_PayoffValue ==
  (op = "payoff" /\ ValidInputs) =>
    /\ res.tag = "Ok"
    /\ FEq(res.val,
           IF args.pos = "Long" /\ args.opt = "Call"
           THEN C3_Max0(FSub(args.stock, args.strike))
           ELSE IF args.pos = "Long" /\ args.opt = "Put"
           THEN C3_Max0(FSub(args.strike, args.stock))
           ELSE IF args.pos = "Short" /\ args.opt = "Call"
           THEN FSub(PremiumOf(args), C3_Max0(FSub(args.stock, args.strike)))
           ELSE FSub(PremiumOf(args), C3_Max0(FSub(args.strike, args.stock))))

\* a Short Put in the money with a positive premium was evaluated
C3_Witness ==
  /\ op = "payoff"
  /\ args.pos = "Short"
  /\ args.opt = "Put"
  /\ FGt(args.strike, args.stock)
  /\ FGt(args.stock, Zero)
  /\ FGt(PremiumOf(args), Zero)
  /\ res.tag = "Ok"
  /\ FLt(res.val, PremiumOf(args))

\* the slope of payoff in the stock price, left and right of the strike
SlopeLeft(pos, opt) ==
  IF pos = "Long" THEN (IF opt = "Call" THEN 0 ELSE -1)
  ELSE (IF opt = "Call" THEN 0 ELSE 1)

SlopeRight(pos, opt) ==
  IF pos = "Long" THEN (IF opt = "Call" THEN 1 ELSE 0)
  ELSE (IF opt = "Call" THEN -1 ELSE 0)

\* C4: for valid inputs payoff is, as a function of the stock price, linear
\* with one slope up to the strike and linear with another slope from the
\* strike on, both pieces passing through the value at stock = strike (slopes
\* 0/+1 Long Call, -1/0 Long Put, 0/-1 Short Call, +1/0 Short Put).
C4_PiecewiseLinear ==
  (op = "payoff" /\ ValidInputs) =>
    \A tie \in MaxTie :
      LET atKink == payoff(args.pos, args.opt, args.strike, args.strike, args.premium, tie)
          slope == IF FGt(args.stock, args.strike)
                   THEN SlopeRight(args.pos, args.opt)
                   ELSE SlopeLeft(args.pos, args.opt)
      IN  /\ SlopeLeft(args.pos, args.opt) # SlopeRight(args.pos, args.opt)
          /\ res.tag = "Ok"
          /\ atKink.tag = "Ok"
          /\ FEq(res.val, FAdd(atKink.val,
                               FMul(FromInt(slope), FSub(args.stock, args.strike))))

\* a Long Call was evaluated strictly to the right of a positive strike
C4_Witness ==
  /\ op = "payoff"
  /\ args.pos = "Long"
  /\ args.opt = "Call"
  /\ FGt(args.strike, Zero)
  /\ FGt(args.stock, args.strike)
  /\ res = Ok(FSub(args.stock, args.strike))

\* C5: BlackScholesModel::price returns Ok for every option kind and every
\* strike, stock, rate, volatility, time and dividend, never a MathError.
C5_PriceNeverFails ==
  op = "price" => /\ res.tag = "Ok"
                  /\ res.err \notin MathError

\* price was called on a model with a negative strike and gave Ok of a NaN
C5_Witness ==
  /\ op = "price"
  /\ FLt(args.strike, Zero)
  /\ res.tag = "Ok"
  /\ IsNaN(res.val)

\* t and y of the claimed formula of norm_dist
C7_t(z) == FDiv(One, FAdd(One, FMul(Lit_p, FAbs(z))))

C7_y(t) ==
  FMul(t, FAdd(FSub(Lit_b1, FMul(Lit_b2, t)),
               FMul(FAdd(FSub(Lit_b3, FMul(Lit_b4, t)), FMul(Lit_b5, FMul(t, t))),
                    FMul(t, t))))

\* the claimed value of norm_dist(z)
C7_value(z) ==
  IF FGt(z, Zero)
  THEN FSub(One, FMul(FExp(FDiv(FNeg(FAdd(FLn(FMul(Two, PI)), FMul(z, z))), Two)),
                      C7_y(C7_t(z))))
  ELSE FMul(FExp(FDiv(FNeg(FSub(FLn(FMul(Two, PI)), FMul(z, z))), Two)),
            C7_y(C7_t(z)))

\* the reference values of the tests
C7_Ref039 == Lit(<<6517, 3167, 7965, 4632>>, 16)
C7_Ref0 == Lit(<<4999, 9999, 9475, 1913, 6000>>, 20)
C7_RefNeg039 == Lit(<<4054, 8067, 8162, 218>>, 16)

\* C7: norm_dist(z) is 1 - exp(-(ln(2 pi) + z^2) / 2) * y for z > 0 and
\* exp(-(ln(2 pi) - z^2) / 2) * y for z <= 0, with t = 1 / (1 + 0.2316419 |z|)
\* and y the polynomial in t, and norm_dist(0.39) = 0.6517316779654632,
\* norm_dist(0.0) = 0.49999999947519136, norm_dist(-0.39) = 0.4054806781620218.
C7_NormDistFormula ==
  op = "norm_dist" =>
    /\ res = C7_value(args.z)
    /\ args.z = Dec(39, 100) => res = C7_Ref039
    /\ args.z = Zero => res = C7_Ref0
    /\ args.z = Dec(-39, 100) => res = C7_RefNeg039

\* norm_dist(-0.39) was evaluated and gave the reference value
C7_Witness ==
  /\ op = "norm_dist"
  /\ args.z = Dec(-39, 100)
  /\ res = C7_RefNeg039

\* d1, d2 and the two discount factors of the claimed formula of price
C8_d1(a) ==
  FAdd(FSub(FAdd(FLn(FDiv(a.stock, a.strike)), a.interest_rate),
            unwrap_or_default(a.dividend)),
       FMul(FDiv(FMul(FDiv(FMul(a.volatility, a.volatility), Two), a.time_to_expire),
                 a.volatility),
            FSqrt(a.time_to_expire)))

C8_d2(a) == FSub(C8_d1(a), FMul(a.volatility, FSqrt(a.time_to_expire)))

C8_stock(a) ==
  FMul(a.stock, EPowf(FMul(FNeg(unwrap_or_default(a.dividend)), a.time_to_expire)))

C8_strike(a) == FMul(a.strike, EPowf(FMul(FNeg(a.interest_rate), a.time_to_expire)))

\* the claimed value of price
C8_value(a) ==
  IF a.opt = "Call"
  THEN FSub(FMul(C8_stock(a), norm_dist(C8_d1(a))), FMul(C8_strike(a), norm_dist(C8_d2(a))))
  ELSE FSub(FMul(C8_strike(a), norm_dist(FNeg(C8_d2(a)))),
            FMul(C8_stock(a), norm_dist(FNeg(C8_d1(a)))))

\* the contract of the tests but for its option kind, and the tests' prices
C8_IsTestContract(a) ==
  /\ a.strike = FromInt(58)
  /\ a.stock = FromInt(60)
  /\ a.interest_rate = Dec(35, 1000)
  /\ a.volatility = Dec(2, 10)
  /\ a.time_to_expire = Dec(5, 10)
  /\ a.dividend = Some(Dec(125, 10000))

C8_RefCall == Lit(<<4556, 9573, 408, 1674>>, 15)
C8_RefPut == Lit(<<1758, 5685, 2066, 5552>>, 15)

\* C8: price is stock * exp(-dividend * time) * N(d1) - strike * exp(-rate *
\* time) * N(d2) for Call and strike * exp(-rate * time) * N(-d2) - stock *
\* exp(-dividend * time) * N(-d1) for Put, with d1 = ln(stock / strike) + rate
\* - dividend + volatility^2 / 2 * time / volatility * sqrt(time), d2 = d1 -
\* volatility * sqrt(time) and N = norm_dist; for strike 58, stock 60, rate
\* 0.035, volatility 0.2, time 0.5 and dividend 0.0125 the Call price is
\* 4.556957304081674 and the Put price is 1.758568520665552.
C8_PriceFormula ==
  op = "price" =>
    /\ res = Ok(C8_value(args))
    /\ C8_IsTestContract(args) =>
         res = Ok(IF args.opt = "Call" THEN C8_RefCall ELSE C8_RefPut)

\* the Put of the tests was priced and gave the reference price
C8_Witness ==
  /\ op = "price"
  /\ args.opt = "Put"
  /\ C8_IsTestContract(args)
  /\ res = Ok(C8_RefPut)

\* C9: for every finite z, norm_dist(z) is finite and within distance 1 of
\* the interval [0, 1].
C9_NormDistNearUnitInterval ==
  op = "norm_dist" => /\ IsFin(res)
                      /\ ~FLt(res, FromInt(-1))
                      /\ ~FGt(res, FromInt(2))

\* a finite f64 as a whole multiple of 2^MinExp, sign and magnitude
C10_Exact(x) == [s |-> x.s, m |-> BShl(x.m, x.e - MinExp)]

\* the finite f64 d is the difference a - b of the finite f64 a and b as real
\* numbers: the subtraction is not rounded
C10_ExactDiff(a, b, d) ==
  /\ IsFin(a)
  /\ IsFin(b)
  /\ IsFin(d)
  /\ SAdd(SAdd(C10_Exact(a), C10_Exact(FNeg(b))), C10_Exact(FNeg(d))).m = <<>>

\* the Long and the Short payoff of the contract of the call, max returning
\* the operand named by tie on equal operands
C10_long(tie) == payoff("Long", args.opt, args.strike, args.stock, args.premium, tie)
C10_short(tie) == payoff("Short", args.opt, args.strike, args.stock, args.premium, tie)

\* the Long payoffs of the contract of the call at the premium p
C10_LongAt(p) ==
  {payoff("Long", args.opt, args.strike, args.stock, p, tie) : tie \in MaxTie}

\* for valid inputs a Long payoff is the same for every valid premium and
\* never negative, and a Short payoff never exceeds the premium
C10_LongAndShort ==
  /\ args.pos = "Long" =>
       /\ ~FLt(res.val, Zero)
       /\ \A p2 \in Premiums :
            ~FLt(unwrap_or_default(p2), Zero) =>
              /\ res \in C10_LongAt(p2)
              /\ C10_LongAt(p2) = C10_LongAt(args.premium)
  /\ args.pos = "Short" => ~FGt(res.val, PremiumOf(args))

\* C10 as stated: moreover the Long and the Short payoff of the same contract
\* add up to the premium.
C10_LongShortPremium ==
  (op = "payoff" /\ ValidInputs) =>
    /\ C10_LongAndShort
    /\ \A t1 \in MaxTie, t2 \in MaxTie :
         FEq(FAdd(C10_long(t1).val, C10_short(t2).val), PremiumOf(args))

\* C10, amended: for valid inputs a Long payoff is the same for every valid
\* premium and never negative, a Short payoff never exceeds the premium and is
\* the f64 difference premium - Long; the Long and the Short payoff add up to
\* the premium whenever that difference is not rounded, that is whenever the
\* Short payoff is premium - Long as a real number.
C10_LongShortRounded ==
  (op = "payoff" /\ ValidInputs) =>
    /\ C10_LongAndShort
    /\ \A t1 \in MaxTie, t2 \in MaxTie :
         /\ FEq(C10_short(t2).val, FSub(PremiumOf(args), C10_long(t1).val))
         /\ C10_ExactDiff(PremiumOf(args), C10_long(t1).val, C10_short(t2).val) =>
              FEq(FAdd(C10_long(t1).val, C10_short(t2).val), PremiumOf(args))

\* a Short Call in the money was evaluated whose payoff is the premium less
\* the Long payoff without rounding, and the two add up to the premium
C10_Witness ==
  /\ op = "payoff"
  /\ args.pos = "Short"
  /\ args.opt = "Call"
  /\ FGt(args.stock, args.strike)
  /\ FGt(PremiumOf(args), Zero)
  /\ res.tag = "Ok"
  /\ \A tie \in MaxTie :
       /\ C10_ExactDiff(PremiumOf(args), C10_long(tie).val, res.val)
       /\ FEq(FAdd(C10_long(tie).val, res.val), PremiumOf(args))

\* a Short Call in the money on whole amounts was evaluated whose payoff is
\* rounded: it and the Long payoff do not add up to the premium
C10_RoundedWhole ==
  /\ op = "payoff"
  /\ args.pos = "Short"
  /\ args.opt = "Call"
  /\ args.strike = Zero
  /\ args.stock = TwoTo(54)
  /\ PremiumOf(args) = One
  /\ res = Ok(FNeg(TwoTo(54)))
  /\ \A tie \in MaxTie :
       /\ ~C10_ExactDiff(PremiumOf(args), C10_long(tie).val, res.val)
       /\ FEq(FAdd(C10_long(tie).val, res.val), Zero)

\* a Long Call was evaluated whose difference stock - strike is -0.0, and max
\* returned that operand: the payoff is the zero -0.0
C3_NegZeroPayoff ==
  /\ op = "payoff"
  /\ args.pos = "Long"
  /\ args.opt = "Call"
  /\ args.strike = Zero
  /\ args.stock = NegZero
  /\ res = Ok(NegZero)
====
